---- MODULE Spec2Model ----
(***************************************************************************)
(* Model of the run-mapper MapWrapper component (src/unnamed/part_000):    *)
(* the waypoint history kept in React state (waypoints, history,           *)
(* historyIndex), the handlers that commit to it (delayed single-click     *)
(* timer, double-click insertion, marker drag-end), undo / redo / clear,   *)
(* and the elevation pipeline fetchElevation.                              *)
(*                                                                         *)
(* React state is held with every queued update already applied, in the    *)
(* order the setters were called (that is the state the next render        *)
(* shows).  What a handler reads is not that state but the values its      *)
(* closure captured at the render it was created in; those are kept        *)
(* separately (rHistory, rHistoryIndex, handlerIdx, waypointsRef).         *)
(* Coordinates are integer pairs; distances are compared as exact squared  *)
(* rationals instead of floating-point square roots.                       *)
(***************************************************************************)
EXTENDS Integers, Sequences, FiniteSets, Bags, TLC

VARIABLES
    waypoints,       \* useState waypoints (part_000:74)
    history,         \* useState history (part_000:75)
    historyIndex,    \* useState historyIndex, 0-based (part_000:76)
    rHistory,        \* history as read by the closures of the last render
    rHistoryIndex,   \* historyIndex as read by the closures of the last render
    waypointsRef,    \* waypointsRef.current (part_000:77)
    handlerIdx,      \* historyIndex captured by commitWaypoints in the map/marker handlers
    wpSlot,          \* history slot holding the very array object that is `waypoints`, or -1
    clickTimeout,    \* clickTimeoutRef.current: NoTimer or the pending callback's captures
    drag,            \* NoDrag or the marker being dragged and its _origIdx
    renderPending,   \* updates queued outside a discrete event, not yet rendered
    commits,         \* number of commits that took effect so far (bounds the exploration)
    lastOp           \* the state-changing handler that ran last ("none" after a
                     \* dragstart or a re-render), whether it committed, the map
                     \* clicks delivered in a row, whether a timer callback
                     \* committed among them, and what an Undo or a Redo found

histVars == <<waypoints, history, historyIndex, rHistory, rHistoryIndex, waypointsRef,
              handlerIdx, wpSlot, clickTimeout, drag, renderPending, commits, lastOp>>

VARIABLES
    elevationProfile,       \* [isNull, values]: null or the stored list of elevations
    elevationError,         \* the "unavailable" flag
    elevationLoading,
    showElevation,
    routeCoordinatesLen,    \* routeCoordinatesRef.current.length
    runs                    \* the calls of fetchElevation so far, each with its position

elevVars == <<elevationProfile, elevationError, elevationLoading, showElevation,
              routeCoordinatesLen, runs>>

VARIABLES
    routeInfo,              \* the route info is set (part_000:644), so the player panel shows
    isPlaying,              \* useState isPlaying (part_000:82)
    rIsPlaying,             \* isPlaying as read by the closures of the last render
    duration,               \* useState duration, seconds (part_000:83)
    progress,               \* useState progress (part_000:84)
    playerMarker,           \* playerMarkerRef.current (part_000:85)
    animationFrameRef,      \* animationFrameRef.current, 0 for undefined (part_000:86)
    startTimeRef,           \* startTimeRef.current, 0 for undefined (part_000:87)
    frames,                 \* the animation-frame callbacks requested and not yet run
    nextFrame,              \* the id the next requestAnimationFrame returns
    now,                    \* timestamp of the latest frame delivered
    lastFrame               \* what the latest call of animateRoute computed, NoFrame
                            \* once another playback handler has run

playVars == <<isPlaying, rIsPlaying, duration, progress, playerMarker, animationFrameRef,
              startTimeRef, frames, nextFrame, now, lastFrame>>

VARIABLES
    routeSegmentsRef,       \* routeSegmentsRef.current (part_000:91)
    mapSegments             \* the gradient polylines that are layers of the map

drawVars == <<routeSegmentsRef, mapSegments>>

VARIABLE
    call                    \* the call observed: a helper function's arguments and
                            \* result, or the request the elevation endpoint handles

vars == <<histVars, elevVars, routeInfo, playVars, drawVars, call>>

----------------------------------------------------------------------------
(* Inputs and bounds *)

\* Coordinates a click or a drag can deliver.
Points == {<<0, 0>>, <<0, 2>>}

\* Number of effective commits explored in one behaviour.
MaxCommits == 2

\* initialWaypoints: empty (plain load) or decoded from a shared link.
InitialLists == {<< >>, <<<<0, 0>>, <<0, 2>>>>}

\* JavaScript undefined, as a value comparable with waypoint lists (no click or
\* drag delivers the coordinate it holds).
Undefined == <<<<-1, -1>>>>

\* clickTimeoutRef.current === null, and no marker being dragged.
NoTimer == [armed |-> FALSE, pt |-> <<0, 0>>, idx |-> 0]
NoDrag == [active |-> FALSE, origIdx |-> -1, marker |-> -1]

Min(a, b) == IF a < b THEN a ELSE b

----------------------------------------------------------------------------
(* JavaScript array helpers *)

\* arr[i] with a 0-based index: undefined outside the array.
At(arr, i) == IF i + 1 \in DOMAIN arr THEN arr[i + 1] ELSE Undefined

\* arr.slice(0, n) for n >= 0: the end is clamped to the length.
SliceTo(arr, n) == SubSeq(arr, 1, Min(n, Len(arr)))

\* arr.filter((_, index) => index !== k), k 0-based.
RemoveAt(arr, k) == SubSeq(arr, 1, k) \o SubSeq(arr, k + 2, Len(arr))

\* copy = [...arr]; copy[k] = v, k 0-based and inside the array.
ReplaceAt(arr, k, v) == [arr EXCEPT ![k + 1] = v]

\* copy = [...arr]; copy.splice(k, 0, v).
InsertAt(arr, k, v) == SubSeq(arr, 1, k) \o <<v>> \o SubSeq(arr, k + 1, Len(arr))

\* arr.findIndex(e => e equals v): first 0-based match or -1.
FindIndex(arr, v) ==
    IF \E i \in DOMAIN arr : arr[i] = v
    THEN (CHOOSE i \in DOMAIN arr : arr[i] = v /\ \A j \in 1..(i - 1) : arr[j] # v) - 1
    ELSE -1

----------------------------------------------------------------------------
(* Geometry: distanceToSegment and the nearest-segment scan of dblClickHandler *)

\* A squared distance n/d (d > 0); Infinity is 1/0.
Infinity == [n |-> 1, d |-> 0]
Less(r1, r2) == r1.n * r2.d < r2.n * r1.d

\* distanceToSegment as it would be without the clamp of param: the distance
\* to the whole line through start and end.
distanceToLine(point, start, end) ==
    LET A == point[1] - start[1]
        B == point[2] - start[2]
        C == end[1] - start[1]
        D == end[2] - start[2]
        dot == A * C + B * D
        len_sq == C * C + D * D
    IN  IF len_sq = 0
        THEN [n |-> A * A + B * B, d |-> 1]
        ELSE [n |-> (A * A + B * B) * len_sq - dot * dot, d |-> len_sq]

distanceToSegment(point, start, end) ==
    LET A == point[1] - start[1]
        B == point[2] - start[2]
        C == end[1] - start[1]
        D == end[2] - start[2]
        dot == A * C + B * D
        len_sq == C * C + D * D
    IN  IF len_sq = 0 \/ dot < 0
        THEN [n |-> A * A + B * B, d |-> 1]
        ELSE IF dot > len_sq
        THEN [n |-> (point[1] - end[1]) * (point[1] - end[1])
                    + (point[2] - end[2]) * (point[2] - end[2]), d |-> 1]
        ELSE [n |-> (A * A + B * B) * len_sq - dot * dot, d |-> len_sq]

\* for (i = 0; i < wps.length - 1; i++) if (dist < minDist) { minDist = dist; bestIdx = i + 1 }
RECURSIVE NearestScan(_, _, _, _, _)
NearestScan(clickPoint, wps, i, minDist, bestIdx) ==
    IF i >= Len(wps) - 1 THEN bestIdx
    ELSE LET dist == distanceToSegment(clickPoint, wps[i + 1], wps[i + 2])
         IN  IF Less(dist, minDist)
             THEN NearestScan(clickPoint, wps, i + 1, dist, i + 1)
             ELSE NearestScan(clickPoint, wps, i + 1, minDist, bestIdx)

BestIdx(clickPoint, wps) == NearestScan(clickPoint, wps, 0, Infinity, 1)

\* No helper has been called yet.
NoCall == [op |-> "none"]

----------------------------------------------------------------------------
(* Waypoint history *)

\* canUndo as it would be with a non-strict comparison.
canUndoNonStrict == rHistoryIndex >= 0

canUndo == rHistoryIndex > 0
canRedo == rHistoryIndex < Len(rHistory) - 1

\* The component is unmounted once a render meets waypoints === undefined
\* (waypoints.map throws in the routing effect).
Mounted == waypoints # Undefined

\* The pointer is held by a marker drag from dragstart to dragend: no click,
\* double click or button press is delivered in between.
PointerFree == ~drag.active

\* JSON.stringify(newWps) === JSON.stringify(waypointsRef.current)
SameAsCurrent(newWps) == newWps = waypointsRef

\* setHistory(prev => [...prev.slice(0, historyIndex + 1), newWps]) with the
\* closure's historyIndex.
TrimmedHistory(prev, closureIdx) == SliceTo(prev, closureIdx + 1)

\* commitWaypoints(newWps) as called through a closure that captured closureIdx.
commitWaypoints(newWps, closureIdx) ==
    IF SameAsCurrent(newWps)
    THEN UNCHANGED <<waypoints, history, historyIndex, wpSlot>>
    ELSE /\ history' = TrimmedHistory(history, closureIdx) \o <<newWps>>
         /\ historyIndex' = historyIndex + 1
         /\ waypoints' = newWps
         /\ wpSlot' = Len(history') - 1

\* The commit stays inside the explored bound.
WithinBounds(newWps) == SameAsCurrent(newWps) \/ commits < MaxCommits

\* Map clicks delivered in a row, timer callbacks and re-renders aside, after
\* the handler `name`: the two clicks of a double click are counted 1 and 2.
ClicksAfter(name) ==
    CASE name = "click" -> IF lastOp.clicks = 2 THEN 1 ELSE lastOp.clicks + 1
      [] name \in {"timer", "none"} -> lastOp.clicks
      [] OTHER -> 0

\* Whether a timer callback has committed since the first of those clicks.
AppendedAfter(name, committed) ==
    CASE name = "click" -> lastOp.clicks = 1 /\ lastOp.appended
      [] name = "timer" -> lastOp.appended \/ (committed /\ lastOp.clicks >= 1)
      [] name = "none" -> lastOp.appended
      [] OTHER -> FALSE

\* The current list, the history and the cursor an Undo or a Redo button
\* press found.
FoundBy(name) ==
    IF name \in {"undo", "redo"} THEN <<waypoints, history, historyIndex>> ELSE << >>

\* Bookkeeping of a handler that called commitWaypoints(newWps).
Committed(name, newWps) ==
    /\ lastOp' = [op |-> name, committed |-> ~SameAsCurrent(newWps),
                  clicks |-> ClicksAfter(name),
                  appended |-> AppendedAfter(name, ~SameAsCurrent(newWps)),
                  before |-> FoundBy(name)]
    /\ commits' = IF SameAsCurrent(newWps) THEN commits ELSE commits + 1

\* Bookkeeping of a handler that did not call it.
NoCommit(name) ==
    /\ lastOp' = [op |-> name, committed |-> FALSE,
                  clicks |-> ClicksAfter(name),
                  appended |-> AppendedAfter(name, FALSE),
                  before |-> FoundBy(name)]
    /\ UNCHANGED commits

\* A re-render followed by its effects: closures see the new state, the ref
\* sync effect and the handler-registering effects run when `waypoints` is a
\* new array object.
RenderAndEffects(sameObject) ==
    /\ rHistory' = history'
    /\ rHistoryIndex' = historyIndex'
    /\ renderPending' = FALSE
    /\ IF sameObject
       THEN UNCHANGED <<waypointsRef, handlerIdx>>
       ELSE /\ waypointsRef' = waypoints'
            /\ handlerIdx' = historyIndex'

\* The host re-renders after updates queued from a timer or a promise callback.
Render ==
    /\ Mounted
    /\ renderPending
    /\ UNCHANGED <<waypoints, history, historyIndex, wpSlot, clickTimeout, drag>>
    /\ RenderAndEffects(FALSE)
    /\ NoCommit("none")

\* Map 'click': arm the 250 ms timer unless one is pending.
clickHandler(p) ==
    /\ Mounted
    /\ PointerFree
    /\ IF clickTimeout.armed
       THEN UNCHANGED clickTimeout
       ELSE clickTimeout' = [armed |-> TRUE, pt |-> p, idx |-> handlerIdx]
    /\ UNCHANGED <<waypoints, history, historyIndex, rHistory, rHistoryIndex,
                   waypointsRef, handlerIdx, wpSlot, drag, renderPending>>
    /\ NoCommit("click")

\* const newWaypoints = [...waypointsRef.current, newPoint] of the timer callback.
TimerList == waypointsRef \o <<clickTimeout.pt>>

\* The timer callback: append the clicked point and commit through the closure
\* of the render in which the click handler was registered.
clickTimerFire ==
    /\ Mounted
    /\ clickTimeout.armed
    /\ LET newWaypoints == TimerList
       IN  /\ WithinBounds(newWaypoints)
           /\ commitWaypoints(newWaypoints, clickTimeout.idx)
           /\ renderPending' = (renderPending \/ ~SameAsCurrent(newWaypoints))
           /\ drag' = IF SameAsCurrent(newWaypoints) THEN drag ELSE NoDrag
           /\ Committed("timer", newWaypoints)
    /\ clickTimeout' = NoTimer
    /\ UNCHANGED <<rHistory, rHistoryIndex, waypointsRef, handlerIdx>>

\* newWaypoints.splice(bestIdx, 0, clickPoint) on a copy of waypointsRef.current.
DblClickList(p) == InsertAt(waypointsRef, BestIdx(p, waypointsRef), p)

\* Map 'dblclick': cancel the pending single click, insert on the nearest segment.
dblClickHandler(p) ==
    /\ Mounted
    /\ PointerFree
    /\ clickTimeout' = NoTimer
    /\ IF Len(waypointsRef) < 2
       THEN /\ UNCHANGED <<waypoints, history, historyIndex, wpSlot, rHistory,
                           rHistoryIndex, waypointsRef, handlerIdx, drag, renderPending>>
            /\ NoCommit("dblclick")
       ELSE LET newWaypoints == DblClickList(p)
            IN  /\ WithinBounds(newWaypoints)
                /\ commitWaypoints(newWaypoints, handlerIdx)
                /\ RenderAndEffects(FALSE)
                /\ drag' = NoDrag
                /\ Committed("dblclick", newWaypoints)

\* Marker 'dragstart' on the marker of waypoint k (0-based): remember which
\* element of the ref has the marker's position.
dragStart(k) ==
    /\ Mounted
    /\ ~renderPending
    /\ ~drag.active
    /\ k < Len(waypoints)
    /\ drag' = [active |-> TRUE, origIdx |-> FindIndex(waypointsRef, waypoints[k + 1]),
                marker |-> k]
    /\ UNCHANGED <<waypoints, history, historyIndex, rHistory, rHistoryIndex,
                   waypointsRef, handlerIdx, wpSlot, clickTimeout, renderPending>>
    /\ NoCommit("none")

\* idxToUpdate !== -1 && idxToUpdate < waypointsRef.current.length
DragIdxValid == drag.origIdx >= 0 /\ drag.origIdx < Len(waypointsRef)

\* The list a drag end commits: the waypoint removed or moved.
DragEndList(markerPosition, isInTrash) ==
    IF isInTrash
    THEN RemoveAt(waypointsRef, drag.origIdx)
    ELSE ReplaceAt(waypointsRef, drag.origIdx, markerPosition)

\* Marker 'dragend': move the waypoint, or delete it when dropped on the trash area.
dragEnd(markerPosition, isInTrash) ==
    /\ Mounted
    /\ drag.active
    /\ drag' = NoDrag
    /\ UNCHANGED clickTimeout
    /\ IF ~DragIdxValid
       THEN /\ UNCHANGED <<waypoints, history, historyIndex, wpSlot, rHistory,
                           rHistoryIndex, waypointsRef, handlerIdx, renderPending>>
            /\ NoCommit("dragend")
       ELSE LET newWaypoints == DragEndList(markerPosition, isInTrash)
            IN  /\ WithinBounds(newWaypoints)
                /\ commitWaypoints(newWaypoints, handlerIdx)
                /\ IF SameAsCurrent(newWaypoints)
                   THEN UNCHANGED <<rHistory, rHistoryIndex, waypointsRef,
                                    handlerIdx, renderPending>>
                   ELSE RenderAndEffects(FALSE)
                /\ Committed("dragend", newWaypoints)

\* Undo button.
undo ==
    /\ Mounted
    /\ PointerFree
    /\ UNCHANGED <<history, clickTimeout>>
    /\ IF ~canUndo
       THEN /\ UNCHANGED <<waypoints, historyIndex, wpSlot, rHistory, rHistoryIndex,
                           waypointsRef, handlerIdx, drag, renderPending>>
            /\ NoCommit("undo")
       ELSE LET newIdx == rHistoryIndex - 1
                sameObject == ~renderPending /\ newIdx = wpSlot
            IN  /\ historyIndex' = newIdx
                /\ waypoints' = At(rHistory, newIdx)
                /\ wpSlot' = IF renderPending THEN -1 ELSE newIdx
                /\ RenderAndEffects(sameObject)
                /\ UNCHANGED drag
                /\ NoCommit("undo")

\* Redo button.
redo ==
    /\ Mounted
    /\ PointerFree
    /\ UNCHANGED <<history, clickTimeout>>
    /\ IF ~canRedo
       THEN /\ UNCHANGED <<waypoints, historyIndex, wpSlot, rHistory, rHistoryIndex,
                           waypointsRef, handlerIdx, drag, renderPending>>
            /\ NoCommit("redo")
       ELSE LET newIdx == rHistoryIndex + 1
                sameObject == ~renderPending /\ newIdx = wpSlot
            IN  /\ historyIndex' = newIdx
                /\ waypoints' = At(rHistory, newIdx)
                /\ wpSlot' = IF renderPending THEN -1 ELSE newIdx
                /\ RenderAndEffects(sameObject)
                /\ UNCHANGED drag
                /\ NoCommit("redo")

\* clearRoute as it would be without the cursor reset.
clearRouteKeepingCursor ==
    /\ waypoints' = << >>
    /\ history' = << << >> >>
    /\ UNCHANGED historyIndex
    /\ wpSlot' = -1
    /\ drag' = NoDrag

\* The state writes of clearRoute: setWaypoints([]), setHistory([[]]), setHistoryIndex(0).
clearRoute ==
    /\ waypoints' = << >>
    /\ history' = << << >> >>
    /\ historyIndex' = 0
    /\ wpSlot' = -1
    /\ drag' = NoDrag

\* Clear Route button, Skip / Use My Location buttons, suggestion click.
clearButton ==
    /\ Mounted
    /\ PointerFree
    /\ clearRoute
    /\ RenderAndEffects(FALSE)
    /\ UNCHANGED clickTimeout
    /\ NoCommit("clear")

\* clearRoute() called from a promise callback (IP lookup at mount, geolocation
\* success, address search): the re-render follows later.
clearAsync ==
    /\ Mounted
    /\ clearRoute
    /\ renderPending' = TRUE
    /\ UNCHANGED <<rHistory, rHistoryIndex, waypointsRef, handlerIdx, clickTimeout>>
    /\ NoCommit("clearAsync")

----------------------------------------------------------------------------
(* GradientRenderer: the route drawn as one polyline per pair of consecutive
   coordinates.  The segment from coordinate i to i + 1 of the route of n
   coordinates is <<n, i>>; the map holds a bag of them. *)

\* The polylines a ref holds, as a bag: each is an object of its own.
Layers(segs) == SetToBag({segs[k] : k \in DOMAIN segs})

\* segs.forEach(seg => mapRef.current.removeLayer(seg))
removeLayers(layers, segs) == layers (-) Layers(segs)

\* The segments the loop of drawGradientRoute creates for n coordinates.
NewSegments(n) == IF n < 2 THEN << >> ELSE [k \in 1..(n - 1) |-> <<n, k - 1>>]

\* Remove the segments held by routeSegmentsRef from the map and empty the ref.
clearSegments ==
    /\ mapSegments' = removeLayers(mapSegments, routeSegmentsRef)
    /\ routeSegmentsRef' = << >>

\* drawGradientRoute as it would be if it only forgot the old segments.
drawGradientRouteWithoutRemoval(n) ==
    /\ mapSegments' = mapSegments (+) Layers(NewSegments(n))
    /\ routeSegmentsRef' = NewSegments(n)

\* drawGradientRoute(coords) for a route of n coordinates.
drawGradientRoute(n) ==
    /\ mapSegments' = removeLayers(mapSegments, routeSegmentsRef) (+) Layers(NewSegments(n))
    /\ routeSegmentsRef' = NewSegments(n)

----------------------------------------------------------------------------
(* Elevation pipeline: fetchElevation and the proxy's providers.  A route is
   its number of coordinates n; its coordinates are the indices 0..n-1.  A
   call of fetchElevation advances one await at a time. *)

maxSamples == 512
chunkSize == 100
retries == 2

\* Number of fetchElevation calls explored in one behaviour.
MaxRuns == 1

\* Number of runs in one behaviour when runs may overlap, and the route
\* lengths they are started for (one chunk each).
MaxOverlap == 2
OverlapLengths == {2, 3}

\* Number of successive routes explored when each run returns before the next
\* route is found.
MaxRoutes == 2

\* Route lengths delivered by 'routesfound': too short to fetch, one chunk,
\* two chunks.
PathLengths == {1, 2, 150}
\* The longest route whose down-sampling is examined.
MaxCoords == 1100

primary == "openelevation"
secondary == "opentopodata"

\* How an awaited fetch of one chunk ends: a JSON body with results, a
\* rejected fetch or a non-2xx status, a JSON body without results.
Outcomes == {"ok", "failed", "noResults"}

Max(a, b) == IF a > b THEN a ELSE b

NullProfile == [isNull |-> TRUE, values |-> << >>]
Stored(elevations) == [isNull |-> FALSE, values |-> elevations]

sampleStep(n) == Max(1, n \div maxSamples)

\* coords.filter((_, idx) => idx % sampleStep === 0)
Sampled(n) == SelectSeq([j \in 1..n |-> j - 1], LAMBDA idx : idx % sampleStep(n) = 0)

NumChunks(sampled) == (Len(sampled) + chunkSize - 1) \div chunkSize

\* Chunk as it would be if the slice included its end index.
ChunkInclusive(sampled, k) ==
    SubSeq(sampled, k * chunkSize + 1, Min((k + 1) * chunkSize + 1, Len(sampled)))

\* chunks[k] = sampled.slice(k * chunkSize, (k + 1) * chunkSize)
Chunk(sampled, k) ==
    SubSeq(sampled, k * chunkSize + 1, Min((k + 1) * chunkSize, Len(sampled)))

\* for (let i = 0; i < sampled.length; i += chunkSize) chunks.push(...)
Chunks(sampled) == [k \in 1..NumChunks(sampled) |-> Chunk(sampled, k - 1)]

\* The entry a provider returns for coordinate idx of the route of n
\* coordinates: the two providers never agree, and the secondary has a void
\* (elevation: null) at coordinate 1.
ProviderResult(api, n, idx) ==
    [hasElevation |-> ~(api = secondary /\ idx = 1),
     elevation |-> n * 1000 + idx + (IF api = secondary THEN 500 ELSE 0)]

\* json.results of a successful lookup of one chunk.
Results(api, n, chunk) == [j \in DOMAIN chunk |-> ProviderResult(api, n, chunk[j])]

\* json.results.map(r => r.elevation ?? 0)
Elevations(results) ==
    [j \in DOMAIN results |->
        IF results[j].hasElevation THEN results[j].elevation ELSE 0]

\* NewRun as it would be if the lookup started with the secondary provider.
NewRunOnSecondary(n) ==
    [n |-> n, sampled |-> Sampled(n), chunks |-> Chunks(Sampled(n)),
     api |-> secondary, chunk |-> 0, i |-> 0, pc |-> "fetching",
     elevations |-> << >>,
     primaryOutcome |-> "running", secondaryOutcome |-> "untried",
     primaryGathered |-> 0, setError |-> FALSE]

\* A call of fetchElevation at its first await.
NewRun(n) ==
    [n |-> n, sampled |-> Sampled(n), chunks |-> Chunks(Sampled(n)),
     api |-> primary, chunk |-> 0, i |-> 0, pc |-> "fetching",
     elevations |-> << >>,
     primaryOutcome |-> "running", secondaryOutcome |-> "untried",
     primaryGathered |-> 0, setError |-> FALSE]

InFlight(r) == r \in DOMAIN runs /\ runs[r].pc # "done"

\* routesFoundHandler as it would be without setElevationError(false).
routesFoundHandlerKeepingError(n) ==
    /\ routeCoordinatesLen' = n
    /\ IF n < 2
       THEN UNCHANGED <<elevationProfile, elevationError, elevationLoading,
                        showElevation, runs>>
       ELSE /\ runs' = Append(runs, NewRun(n))
            /\ elevationLoading' = TRUE
            /\ UNCHANGED <<elevationProfile, elevationError, showElevation>>
    /\ routeInfo' = TRUE
    /\ drawGradientRoute(n)
    /\ UNCHANGED <<histVars, playVars, call>>

\* The 'routesfound' handler: store the coordinates and call fetchElevation,
\* which returns at once for fewer than 2 coordinates.
routesFoundHandler(n) ==
    /\ routeCoordinatesLen' = n
    /\ IF n < 2
       THEN UNCHANGED <<elevationProfile, elevationError, elevationLoading,
                        showElevation, runs>>
       ELSE /\ runs' = Append(runs, NewRun(n))
            /\ elevationLoading' = TRUE
            /\ elevationError' = FALSE
            /\ UNCHANGED <<elevationProfile, showElevation>>
    /\ routeInfo' = TRUE
    /\ drawGradientRoute(n)
    /\ UNCHANGED <<histVars, playVars, call>>

\* Map 'routesfound', at any time: runs of successive routes may overlap.
routesFound(n) ==
    /\ Len(runs) < MaxRuns
    /\ routesFoundHandler(n)

\* Map 'routesfound' while up to MaxOverlap runs are counted.
routesFoundOverlapping(n) ==
    /\ Len(runs) < MaxOverlap
    /\ routesFoundHandler(n)

\* Map 'routesfound' once the run of the previous route has returned.
routesFoundWhenIdle(n) ==
    /\ Len(runs) < MaxRoutes
    /\ \A r \in DOMAIN runs : ~InFlight(r)
    /\ routesFoundHandler(n)

\* providerSucceeded as it would be if only the newest run stored its profile.
providerSucceededIfNewest(r, elevations) ==
    /\ runs' = [runs EXCEPT ![r].pc = "done", ![r].elevations = elevations,
                            ![r].chunk = 0, ![r].i = 0,
                            ![r].primaryOutcome =
                                IF runs[r].api = primary THEN "succeeded" ELSE @,
                            ![r].secondaryOutcome =
                                IF runs[r].api = secondary THEN "succeeded" ELSE @]
    /\ elevationProfile' = IF r = Len(runs) THEN Stored(elevations) ELSE elevationProfile
    /\ elevationLoading' = FALSE
    /\ UNCHANGED <<elevationError, showElevation>>

\* The provider's loop has pushed its last chunk: store the profile; finally
\* clear the loading flag.
providerSucceeded(r, elevations) ==
    /\ runs' = [runs EXCEPT ![r].pc = "done", ![r].elevations = elevations,
                            ![r].chunk = 0, ![r].i = 0,
                            ![r].primaryOutcome =
                                IF runs[r].api = primary THEN "succeeded" ELSE @,
                            ![r].secondaryOutcome =
                                IF runs[r].api = secondary THEN "succeeded" ELSE @]
    /\ elevationProfile' = Stored(elevations)
    /\ elevationLoading' = FALSE
    /\ UNCHANGED <<elevationError, showElevation>>

\* fallback as it would be if the secondary pushed onto the primary's array.
fallbackKeepingElevations(r, why) ==
    /\ runs' = [runs EXCEPT ![r].api = secondary, ![r].chunk = 0, ![r].i = 0,
                            ![r].pc = "fetching",
                            ![r].primaryOutcome = why,
                            ![r].secondaryOutcome = "running",
                            ![r].primaryGathered = Len(runs[r].elevations)]
    /\ UNCHANGED <<elevationProfile, elevationError, elevationLoading, showElevation>>

\* The catch of the primary's try block: start over with the secondary.
fallback(r, why) ==
    /\ runs' = [runs EXCEPT ![r].api = secondary, ![r].chunk = 0, ![r].i = 0,
                            ![r].pc = "fetching", ![r].elevations = << >>,
                            ![r].primaryOutcome = why,
                            ![r].secondaryOutcome = "running",
                            ![r].primaryGathered = Len(runs[r].elevations)]
    /\ UNCHANGED <<elevationProfile, elevationError, elevationLoading, showElevation>>

\* unavailable as it would be if the secondary's error left fetchElevation
\* through the finally block without being caught.
unavailableUncaught(r, why) ==
    /\ runs' = [runs EXCEPT ![r].pc = "done",
                            ![r].chunk = 0, ![r].i = 0,
                            ![r].secondaryOutcome = why]
    /\ elevationLoading' = FALSE
    /\ UNCHANGED <<elevationProfile, elevationError, showElevation>>

\* The catch of the secondary's try block: both providers failed.
unavailable(r, why) ==
    /\ runs' = [runs EXCEPT ![r].pc = "done", ![r].setError = TRUE,
                            ![r].chunk = 0, ![r].i = 0,
                            ![r].primaryOutcome =
                                IF runs[r].api = primary THEN why ELSE @,
                            ![r].secondaryOutcome =
                                IF runs[r].api = secondary THEN why ELSE @]
    /\ elevationError' = TRUE
    /\ showElevation' = FALSE
    /\ elevationLoading' = FALSE
    /\ UNCHANGED elevationProfile

\* providerFailed as it would be without the nested try of the fallback.
providerFailedWithoutFallback(r, why) == unavailable(r, why)

\* An error thrown inside a provider's try block.
providerFailed(r, why) ==
    IF runs[r].api = primary THEN fallback(r, why) ELSE unavailable(r, why)

\* The awaited fetch of run r returns.
fetchResolves(r, outcome) ==
    /\ InFlight(r)
    /\ runs[r].pc = "fetching"
    /\ LET run == runs[r]
           elevations ==
               run.elevations \o Elevations(Results(run.api, run.n, run.chunks[run.chunk + 1]))
       IN  CASE outcome = "ok" ->
                  IF run.chunk + 1 < Len(run.chunks)
                  THEN /\ runs' = [runs EXCEPT ![r].chunk = run.chunk + 1, ![r].i = 0,
                                               ![r].elevations = elevations]
                       /\ UNCHANGED <<elevationProfile, elevationError,
                                      elevationLoading, showElevation>>
                  ELSE providerSucceeded(r, elevations)
             [] outcome = "noResults" -> providerFailed(r, "invalid")
             [] outcome = "failed" ->
                  IF run.i = retries
                  THEN providerFailed(r, "exhausted")
                  ELSE /\ runs' = [runs EXCEPT ![r].pc = "backoff"]
                       /\ UNCHANGED <<elevationProfile, elevationError,
                                      elevationLoading, showElevation>>
    /\ UNCHANGED routeCoordinatesLen
    /\ UNCHANGED <<histVars, routeInfo, playVars, drawVars, call>>

\* backoffElapses as it would be if the loop did not count its attempts.
backoffElapsesWithoutCounting(r) ==
    /\ InFlight(r)
    /\ runs[r].pc = "backoff"
    /\ runs' = [runs EXCEPT ![r].pc = "fetching"]
    /\ UNCHANGED <<elevationProfile, elevationError, elevationLoading, showElevation,
                   routeCoordinatesLen>>
    /\ UNCHANGED <<histVars, routeInfo, playVars, drawVars, call>>

\* The backoff timer of run r fires: next attempt of the same chunk.
backoffElapses(r) ==
    /\ InFlight(r)
    /\ runs[r].pc = "backoff"
    /\ runs' = [runs EXCEPT ![r].pc = "fetching", ![r].i = runs[r].i + 1]
    /\ UNCHANGED <<elevationProfile, elevationError, elevationLoading, showElevation,
                   routeCoordinatesLen>>
    /\ UNCHANGED <<histVars, routeInfo, playVars, drawVars, call>>

\* The elevation toggle button.
toggleElevation ==
    /\ routeCoordinatesLen > 1
    /\ IF elevationLoading \/ elevationError
       THEN UNCHANGED showElevation
       ELSE showElevation' = ~showElevation
    /\ UNCHANGED <<elevationProfile, elevationError, elevationLoading,
                   routeCoordinatesLen, runs>>
    /\ UNCHANGED <<histVars, routeInfo, playVars, drawVars, call>>

----------------------------------------------------------------------------
(* Route playback: togglePlay and the animation-frame callback animateRoute.
   Times are milliseconds; progress and the marker's place between two route
   points are exact fractions [num, den] in lowest terms. *)

\* Gaps between one delivered animation frame and the next.
FrameGaps == {500, 2500}

\* Latest frame timestamp explored.
MaxTime == 8000

\* Number of requestAnimationFrame calls explored in one behaviour.
MaxFrames == 6

\* Values typed into the duration field.
DurationInputs == {0, 5}

RECURSIVE GCD(_, _)
GCD(a, b) == IF b = 0 THEN a ELSE GCD(b, a % b)

Rat(n, d) == LET g == GCD(n, d) IN [num |-> n \div g, den |-> d \div g]

Zero == [num |-> 0, den |-> 1]
One == [num |-> 1, den |-> 1]

RatLess(a, b) == a.num * b.den < b.num * a.den

\* Math.min
RatMin(a, b) == IF RatLess(b, a) THEN b ELSE a

NoMarker == [present |-> FALSE, placed |-> FALSE, idx |-> 0, t |-> Zero]

NoFrame == [ran |-> FALSE, elapsed |-> 0, duration |-> 0, newProgress |-> Zero]

\* newProgress as it would be without Math.min(..., 1).
newProgressUnclamped(elapsed, d) == Rat(elapsed, d * 1000)

\* Math.min(elapsed / (duration * 1000), 1)
newProgress(elapsed, d) == RatMin(Rat(elapsed, d * 1000), One)

\* floatIndex as it would be if it scaled by the number of points.
floatIndexByLength(p, len) == Rat(p.num * len, p.den)

\* newProgress * (coords.length - 1)
floatIndex(p, len) == Rat(p.num * (len - 1), p.den)

\* idx = Math.floor(floatIndex), t = floatIndex - idx, and the point
\* interpolate(coords[idx], coords[idx + 1], t), or the last coordinate.
Position(p, len) ==
    LET fi == floatIndex(p, len)
        idx == fi.num \div fi.den
        t == Rat(fi.num - idx * fi.den, fi.den)
    IN  IF idx < len - 1
        THEN [idx |-> idx, t |-> t]
        ELSE [idx |-> len - 1, t |-> Zero]

\* cancelAnimationFrame(id): the callbacks still pending afterwards.
cancelAnimationFrame(id) == {f \in frames : f.id # id}

\* The rest of the component is left as it is by a frame callback, except
\* that its state updates wait for a re-render.
UpdatesQueued ==
    /\ renderPending' = TRUE
    /\ UNCHANGED <<waypoints, history, historyIndex, rHistory, rHistoryIndex,
                   waypointsRef, handlerIdx, wpSlot, clickTimeout, drag, commits, lastOp>>

\* A discrete event on a control of the player panel: what is pending is
\* rendered at its end.
PanelEventRendered ==
    /\ UNCHANGED <<waypoints, history, historyIndex, wpSlot, clickTimeout, drag>>
    /\ RenderAndEffects(~renderPending)
    /\ NoCommit("none")

\* The animation-frame callback f is run with the frame's timestamp.
animateRoute(f, timestamp) ==
    /\ f \in frames
    /\ timestamp <= MaxTime
    /\ now' = timestamp
    /\ LET startTime == IF startTimeRef = 0 THEN timestamp ELSE startTimeRef
           p == newProgress(timestamp - startTime, f.duration)
           pos == Position(p, routeCoordinatesLen)
       IN  /\ lastFrame' = [ran |-> TRUE, elapsed |-> timestamp - startTime,
                            duration |-> f.duration, newProgress |-> p]
           /\ IF routeCoordinatesLen < 2
              THEN /\ startTimeRef' = startTime
                   /\ progress' = p
                   /\ frames' = frames \ {f}
                   /\ UNCHANGED <<isPlaying, playerMarker, animationFrameRef, nextFrame>>
              ELSE IF RatLess(p, One)
              THEN /\ nextFrame <= MaxFrames
                   /\ startTimeRef' = startTime
                   /\ progress' = p
                   /\ playerMarker' =
                          IF playerMarker.present
                          THEN [present |-> TRUE, placed |-> TRUE,
                                idx |-> pos.idx, t |-> pos.t]
                          ELSE playerMarker
                   /\ animationFrameRef' = nextFrame
                   /\ nextFrame' = nextFrame + 1
                   /\ frames' = (frames \ {f}) \cup
                                    {[id |-> nextFrame, duration |-> f.duration]}
                   /\ UNCHANGED isPlaying
              ELSE /\ isPlaying' = FALSE
                   /\ progress' = Zero
                   /\ startTimeRef' = 0
                   /\ playerMarker' = NoMarker
                   /\ frames' = frames \ {f}
                   /\ UNCHANGED <<animationFrameRef, nextFrame>>
    /\ UpdatesQueued
    /\ UNCHANGED <<rIsPlaying, duration, routeInfo>>
    /\ UNCHANGED <<elevVars, drawVars, call>>

\* stopPlayback as it would be without cancelAnimationFrame.
stopPlaybackWithoutCancel ==
    /\ isPlaying' = FALSE
    /\ progress' = Zero
    /\ startTimeRef' = 0
    /\ playerMarker' = NoMarker
    /\ UNCHANGED <<animationFrameRef, nextFrame, frames>>

\* The stop branch of togglePlay.
stopPlayback ==
    /\ frames' = IF animationFrameRef # 0
                 THEN cancelAnimationFrame(animationFrameRef) ELSE frames
    /\ isPlaying' = FALSE
    /\ progress' = Zero
    /\ startTimeRef' = 0
    /\ playerMarker' = NoMarker
    /\ UNCHANGED <<animationFrameRef, nextFrame>>

\* The start branch of togglePlay.
startPlayback ==
    IF routeCoordinatesLen > 0
    THEN /\ nextFrame <= MaxFrames
         /\ playerMarker' = [present |-> TRUE, placed |-> FALSE, idx |-> 0, t |-> Zero]
         /\ isPlaying' = TRUE
         /\ startTimeRef' = 0
         /\ animationFrameRef' = nextFrame
         /\ nextFrame' = nextFrame + 1
         /\ frames' = frames \cup {[id |-> nextFrame, duration |-> duration]}
         /\ UNCHANGED progress
    ELSE UNCHANGED <<isPlaying, progress, playerMarker, animationFrameRef,
                     startTimeRef, frames, nextFrame>>

\* The Play Route / Stop button, shown while there is route info.
togglePlay ==
    /\ Mounted
    /\ PointerFree
    /\ routeInfo
    /\ IF rIsPlaying THEN stopPlayback ELSE startPlayback
    /\ rIsPlaying' = isPlaying'
    /\ lastFrame' = NoFrame
    /\ PanelEventRendered
    /\ UNCHANGED <<duration, now, routeInfo>>
    /\ UNCHANGED <<elevVars, drawVars, call>>

\* The duration field: setDuration(Math.max(1, Math.min(60, Number(value)))).
durationChange(value) ==
    /\ Mounted
    /\ PointerFree
    /\ routeInfo
    /\ duration' = Max(1, Min(60, value))
    /\ rIsPlaying' = isPlaying
    /\ PanelEventRendered
    /\ UNCHANGED <<isPlaying, progress, playerMarker, animationFrameRef, startTimeRef,
                   frames, nextFrame, now, lastFrame, routeInfo>>
    /\ UNCHANGED <<elevVars, drawVars, call>>

\* What clearRoute does besides resetting the history: it drops the route
\* info and the stored coordinates, removes the player marker and resets
\* the animation.
clearRoutePlayback ==
    /\ routeInfo' = FALSE
    /\ routeCoordinatesLen' = 0
    /\ playerMarker' = NoMarker
    /\ frames' = IF animationFrameRef # 0
                 THEN cancelAnimationFrame(animationFrameRef) ELSE frames
    /\ animationFrameRef' = 0
    /\ isPlaying' = FALSE
    /\ progress' = Zero
    /\ lastFrame' = NoFrame
    /\ clearSegments
    /\ UNCHANGED <<duration, startTimeRef, nextFrame, now, call>>
    /\ UNCHANGED <<elevationProfile, elevationError, elevationLoading, showElevation, runs>>

----------------------------------------------------------------------------
(* GeometryKernel: findClosestSegment with its zoom-dependent threshold, and
   calls of the helpers on arguments of their own. *)

\* Zoom levels a call may read from the map: 0..MaxZoom.
MaxZoom == 14

\* Longest waypoint list handed to findClosestSegment.
MaxPathLen == 3

PathPoints == {<<0, 0>>, <<0, 10>>, <<10, 10>>}
ClickPoints == {<<1, 5>>, <<0, 0>>, <<0, 5>>, <<5, 11>>, <<12, 10>>}
Paths == UNION {[1..k -> PathPoints] : k \in 0..MaxPathLen}

\* The zoom used when getZoom() is falsy, and the zoom at which the threshold
\* is baseThreshold.
defaultZoom == 13
referenceZoom == 13

baseThreshold == Rat(1, 2000)
minThreshold == Rat(1, 1000)

\* Math.pow(2, e) for an integer e.
Pow2(e) == IF e >= 0 THEN Rat(2^e, 1) ELSE Rat(1, 2^(0 - e))

RatMul(a, b) == Rat(a.num * b.num, a.den * b.den)

\* Math.max
RatMax(a, b) == IF RatLess(a, b) THEN b ELSE a

\* mapRef.current?.getZoom() || 13
currentZoom(getZoom) == IF getZoom = 0 THEN defaultZoom ELSE getZoom

\* Math.max(minThreshold, baseThreshold * Math.pow(2, 13 - currentZoom))
threshold(getZoom) ==
    RatMax(minThreshold, RatMul(baseThreshold, Pow2(referenceZoom - currentZoom(getZoom))))

\* minDistance < threshold, for the squared distance distSq: both sides are
\* non-negative, so it is distSq < threshold^2, decided in integers.
BelowThreshold(distSq, thr) ==
    /\ distSq.d # 0
    /\ distSq.n <= ((thr.num * thr.num * distSq.d) - 1) \div (thr.den * thr.den)

\* findClosestSegment returning null.
Null == [isNull |-> TRUE, index |-> -1]

\* The loop of findClosestSegment: minDistance and insertIndex after it.
RECURSIVE ClosestScan(_, _, _, _, _)
ClosestScan(clickPoint, wps, i, minDistance, insertIndex) ==
    IF i >= Len(wps) - 1 THEN [minDistance |-> minDistance, insertIndex |-> insertIndex]
    ELSE LET distance == distanceToSegment(clickPoint, wps[i + 1], wps[i + 2])
         IN  IF Less(distance, minDistance)
             THEN ClosestScan(clickPoint, wps, i + 1, distance, i + 1)
             ELSE ClosestScan(clickPoint, wps, i + 1, minDistance, insertIndex)

findClosestSegment(clickPoint, wps, getZoom) ==
    IF Len(wps) < 2 THEN Null
    ELSE LET scan == ClosestScan(clickPoint, wps, 0, Infinity, -1)
         IN  IF BelowThreshold(scan.minDistance, threshold(getZoom))
             THEN [isNull |-> FALSE, index |-> scan.insertIndex]
             ELSE Null

\* A call findClosestSegment(clickPoint, wps) while the map is at zoom getZoom.
findClosestSegmentCall(clickPoint, wps, getZoom) ==
    /\ call' = [op |-> "findClosestSegment", clickPoint |-> clickPoint,
                waypoints |-> wps, zoom |-> getZoom,
                threshold |-> threshold(getZoom),
                result |-> findClosestSegment(clickPoint, wps, getZoom)]
    /\ UNCHANGED <<histVars, elevVars, routeInfo, playVars, drawVars>>

\* A call distanceToSegment(point, start, end).
distanceToSegmentCall(point, start, end) ==
    /\ call' = [op |-> "distanceToSegment", point |-> point, start |-> start,
                end |-> end, result |-> distanceToSegment(point, start, end)]
    /\ UNCHANGED <<histVars, elevVars, routeInfo, playVars, drawVars>>

----------------------------------------------------------------------------
(* Share link: shareRoute writes the waypoints into the route query parameter,
   RoutePage and HomeContent read them back.  Text is a sequence of
   characters; a coordinate is a number of tenths of a degree. *)

ShareCoords == {-15, 0, 120}
SharePoints == ShareCoords \X ShareCoords
ShareLists == UNION {[1..k -> SharePoints] : k \in 0..MaxPathLen}

DigitChars == <<"0", "1", "2", "3", "4", "5", "6", "7", "8", "9">>
DigitSet == {DigitChars[k] : k \in DOMAIN DigitChars}
DigitValue(c) == (CHOOSE k \in DOMAIN DigitChars : DigitChars[k] = c) - 1

\* The decimal digits of a natural number.
RECURSIVE Digits(_)
Digits(n) == IF n < 10 THEN <<DigitChars[n + 1]>>
             ELSE Digits(n \div 10) \o <<DigitChars[(n % 10) + 1]>>

\* Number-to-text as it would be if coordinates were rounded toward zero to
\* whole degrees.
NumberToStringTruncated(v) ==
    LET a == IF v < 0 THEN 0 - v ELSE v
    IN  (IF v < 0 /\ a >= 10 THEN <<"-">> ELSE << >>) \o Digits(a \div 10)

\* The text JSON.stringify writes for the number v / 10.
NumberToString(v) ==
    LET a == IF v < 0 THEN 0 - v ELSE v
    IN  (IF v < 0 THEN <<"-">> ELSE << >>)
        \o Digits(a \div 10)
        \o (IF a % 10 = 0 THEN << >> ELSE <<".", DigitChars[(a % 10) + 1]>>)

RECURSIVE JoinPoints(_)
\* The elements of the outer array, separated by commas.
JoinPoints(wps) ==
    IF wps = << >> THEN << >>
    ELSE <<"[">> \o NumberToString(Head(wps)[1]) \o <<",">>
         \o NumberToString(Head(wps)[2]) \o <<"]">>
         \o (IF Tail(wps) = << >> THEN << >> ELSE <<",">> \o JoinPoints(Tail(wps)))

\* JSON.stringify(waypoints)
JSONstringify(wps) == <<"[">> \o JoinPoints(wps) \o <<"]">>

RECURSIVE encodeURIComponent(_)
\* encodeURIComponent: brackets and commas are escaped; digits, '-' and '.'
\* are unreserved.
encodeURIComponent(text) ==
    IF text = << >> THEN << >>
    ELSE LET c == Head(text)
         IN  (CASE c = "[" -> <<"%", "5", "B">>
                [] c = "]" -> <<"%", "5", "D">>
                [] c = "," -> <<"%", "2", "C">>
                [] OTHER -> <<c>>)
             \o encodeURIComponent(Tail(text))

HexSet == DigitSet \cup {"A", "B", "C", "D", "E", "F"}

\* The character an escape %h1h2 stands for; "?" is any character that is
\* not part of the JSON text of a waypoint list.
Unescaped(h1, h2) ==
    CASE <<h1, h2>> = <<"5", "B">> -> "["
      [] <<h1, h2>> = <<"5", "D">> -> "]"
      [] <<h1, h2>> = <<"2", "C">> -> ","
      [] OTHER -> "?"

\* The result of a step that may throw.
Thrown == [ok |-> FALSE, value |-> << >>]
Returned(v) == [ok |-> TRUE, value |-> v]

RECURSIVE PercentDecode(_, _)
\* Percent-decoding, left to right; a '%' not followed by two hex digits is
\* malformed.
PercentDecode(text, acc) ==
    IF text = << >> THEN Returned(acc)
    ELSE IF Head(text) # "%" THEN PercentDecode(Tail(text), Append(acc, Head(text)))
    ELSE IF Len(text) >= 3 /\ text[2] \in HexSet /\ text[3] \in HexSet
    THEN PercentDecode(SubSeq(text, 4, Len(text)), Append(acc, Unescaped(text[2], text[3])))
    ELSE Thrown

\* decodeURIComponent: throws URIError on a malformed escape.
decodeURIComponent(text) == PercentDecode(text, << >>)

\* searchParams.get('route'): the value of the parameter, percent-decoded by
\* the URL parser, which keeps a malformed '%' as it is.
searchParamsGet(raw) ==
    IF PercentDecode(raw, << >>).ok THEN PercentDecode(raw, << >>).value ELSE raw

RECURSIVE ReadDigits(_, _, _)
\* The digits from position pos on: their value and the position after them.
ReadDigits(text, pos, acc) ==
    IF pos <= Len(text) /\ text[pos] \in DigitSet
    THEN ReadDigits(text, pos + 1, acc * 10 + DigitValue(text[pos]))
    ELSE [value |-> acc, next |-> pos]

\* A JSON number at pos with at most one fraction digit, in tenths.
ParseNumber(text, pos) ==
    LET neg == pos <= Len(text) /\ text[pos] = "-"
        p1 == IF neg THEN pos + 1 ELSE pos
        int == ReadDigits(text, p1, 0)
        hasFrac == int.next <= Len(text) /\ text[int.next] = "."
        frac == ReadDigits(text, int.next + 1, 0)
        abs == IF hasFrac THEN int.value * 10 + frac.value ELSE int.value * 10
    IN  IF int.next = p1 \/ (hasFrac /\ frac.next # int.next + 2)
        THEN [ok |-> FALSE, value |-> 0, next |-> pos]
        ELSE [ok |-> TRUE, value |-> IF neg THEN 0 - abs ELSE abs,
              next |-> IF hasFrac THEN frac.next ELSE int.next]

Expect(text, pos, c) == pos <= Len(text) /\ text[pos] = c

\* A two-element array of numbers at pos.
ParsePoint(text, pos) ==
    LET x == ParseNumber(text, pos + 1)
        y == ParseNumber(text, x.next + 1)
    IN  IF Expect(text, pos, "[") /\ x.ok /\ Expect(text, x.next, ",") /\ y.ok
           /\ Expect(text, y.next, "]")
        THEN [ok |-> TRUE, value |-> <<x.value, y.value>>, next |-> y.next + 1]
        ELSE [ok |-> FALSE, value |-> <<0, 0>>, next |-> pos]

RECURSIVE ParsePoints(_, _, _)
\* The elements of the outer array from pos on, up to its closing bracket,
\* which must end the text.
ParsePoints(text, pos, acc) ==
    LET pt == ParsePoint(text, pos)
    IN  IF ~pt.ok THEN Thrown
        ELSE IF Expect(text, pt.next, ",")
        THEN ParsePoints(text, pt.next + 1, Append(acc, pt.value))
        ELSE IF Expect(text, pt.next, "]") /\ pt.next = Len(text)
        THEN Returned(Append(acc, pt.value))
        ELSE Thrown

\* JSON.parse of the text of a waypoint list: throws SyntaxError otherwise.
JSONparse(text) ==
    IF ~Expect(text, 1, "[") THEN Thrown
    ELSE IF text = <<"[", "]">> THEN Returned(<< >>)
    ELSE ParsePoints(text, 2, << >>)

\* shareRoute: the route parameter of the share link, from the waypoints of
\* the render; nothing is shared while there is none.
shareRoute ==
    /\ Mounted
    /\ call' = IF Len(waypoints) = 0 THEN [op |-> "alert"]
               ELSE [op |-> "shareRoute",
                     routeData |-> encodeURIComponent(JSONstringify(waypoints))]
    /\ UNCHANGED <<histVars, elevVars, routeInfo, playVars, drawVars>>

\* initialWaypointsOf as it would be without the try / catch: the error of the
\* decoding or of the parsing is what the page is left with.
initialWaypointsOfUncaught(raw) ==
    LET routeData == searchParamsGet(raw)
        decoded == decodeURIComponent(routeData)
    IN  IF routeData = << >> THEN << >>
        ELSE IF ~decoded.ok \/ ~JSONparse(decoded.value).ok THEN Thrown
        ELSE JSONparse(decoded.value).value

\* initialWaypoints as RoutePage and HomeContent compute it from the raw value
\* of the route parameter.
initialWaypointsOf(raw) ==
    LET routeData == searchParamsGet(raw)
        decoded == decodeURIComponent(routeData)
    IN  IF routeData = << >> \/ ~decoded.ok \/ ~JSONparse(decoded.value).ok
        THEN << >>
        ELSE JSONparse(decoded.value).value

\* The share link is opened: RoutePage (or HomeContent) decodes its parameter.
RoutePage ==
    /\ call.op = "shareRoute"
    /\ call' = [op |-> "RoutePage", routeData |-> call.routeData,
                initialWaypoints |-> initialWaypointsOf(call.routeData)]
    /\ UNCHANGED <<histVars, elevVars, routeInfo, playVars, drawVars>>

\* Longest raw value of the route parameter of a link typed or cut by hand.
MaxRawLen == 3

\* Its characters: none of them can end a JSON text, "%BB" is a well-formed
\* escape, and a '%' before anything else is a malformed one.
RawChars == {"%", "x", "[", ",", "B"}

\* The raw values; the empty one is the absent parameter (both are falsy).
RawTexts == UNION {[1..k -> RawChars] : k \in 0..MaxRawLen}

\* A page is opened with any route parameter: RoutePage (or HomeContent)
\* computes initialWaypoints and renders the map with it.
pageLoad(raw) ==
    /\ call' = [op |-> "pageLoad", routeData |-> raw,
                initialWaypoints |-> initialWaypointsOf(raw)]
    /\ UNCHANGED <<histVars, elevVars, routeInfo, playVars, drawVars>>

----------------------------------------------------------------------------
(* The elevation endpoint: POST /api/elevation (src/app/api/elevation/route.ts).
   The request it handles is the record `call`; pc is the await it waits at. *)

\* An element of locations: a pair, or null.
Locations == {[isNull |-> FALSE, pair |-> <<0, 0>>], [isNull |-> FALSE, pair |-> <<0, 2>>],
              [isNull |-> TRUE, pair |-> <<0, 0>>]}

\* What the body's locations property may be.
LocationValues ==
    {[type |-> "undefined", items |-> << >>], [type |-> "string", items |-> << >>]}
    \cup {[type |-> "array", items |-> l] : l \in UNION {[1..k -> Locations] : k \in 0..2}}

\* Request bodies: text that is not JSON, JSON null, or a JSON value with the
\* locations and api properties it may have ("" is an absent api).
Bodies ==
    {[kind |-> "unparsable"], [kind |-> "null"]}
    \cup {[kind |-> "value", locations |-> l, api |-> a] :
             l \in LocationValues, a \in {"", "opentopodata", "openelevation"}}

\* What the provider may do with the GET.
ProviderOutcomes == {"networkError", "status200", "status429", "status500"}

\* NextResponse.json(body, {status})
Response(status, body) == [status |-> status, body |-> body]

\* The catch block.
caught == Response(500, "Failed to fetch elevation data")

\* locations.map(loc => `${loc[0]},${loc[1]}`).join('|'): throws on null.
locationString(locations) ==
    IF \E k \in DOMAIN locations : locations[k].isNull THEN Thrown
    ELSE Returned([k \in DOMAIN locations |-> locations[k].pair])

\* The provider the url addresses.
urlOf(api) == IF api = "opentopodata" THEN "api.opentopodata.org" ELSE "api.open-elevation.com"

\* The handler returns a response.
respond(response) ==
    call' = [call EXCEPT !.pc = "returned", !.responses = Append(@, response)]

\* A POST arrives: the handler awaits request.json().
POST(body) ==
    /\ call' = [op |-> "POST", pc |-> "request.json", body |-> body,
                providerRequests |-> << >>, providerOutcome |-> "none",
                data |-> "none", responses |-> << >>]
    /\ UNCHANGED <<histVars, elevVars, routeInfo, playVars, drawVars>>

\* request.json() settles; the handler runs on to the fetch or to a return.
bodyRead ==
    /\ call.op = "POST"
    /\ call.pc = "request.json"
    /\ LET body == call.body
       IN  IF body.kind # "value" THEN respond(caught)
           ELSE IF body.locations.type # "array"
           THEN respond(Response(400, "Invalid locations format"))
           ELSE IF ~locationString(body.locations.items).ok THEN respond(caught)
           ELSE call' = [call EXCEPT
                    !.pc = "fetch",
                    !.providerRequests = Append(@,
                        [host |-> urlOf(IF body.api = "" THEN "opentopodata" ELSE body.api),
                         locations |-> locationString(body.locations.items).value])]
    /\ UNCHANGED <<histVars, elevVars, routeInfo, playVars, drawVars>>

\* fetch(url) settles.
providerResponds(outcome) ==
    /\ call.op = "POST"
    /\ call.pc = "fetch"
    /\ IF outcome = "status200"
       THEN call' = [call EXCEPT !.pc = "response.json", !.providerOutcome = outcome]
       ELSE call' = [call EXCEPT !.pc = "returned", !.providerOutcome = outcome,
                                 !.responses = Append(@, caught)]
    /\ UNCHANGED <<histVars, elevVars, routeInfo, playVars, drawVars>>

\* response.json() settles: the provider's data is returned as it is.
dataRead(isJSON) ==
    /\ call.op = "POST"
    /\ call.pc = "response.json"
    /\ IF isJSON
       THEN call' = [call EXCEPT !.pc = "returned", !.data = "provider data",
                                 !.responses = Append(@, Response(200, "provider data"))]
       ELSE call' = [call EXCEPT !.pc = "returned", !.data = "not JSON",
                                 !.responses = Append(@, caught)]
    /\ UNCHANGED <<histVars, elevVars, routeInfo, playVars, drawVars>>

\* The smoothing of the elevation chart: Catmull-Rom control points and the
\* samples of the curve.
sampleCount == 512

\* Longest raw profile of which every content is explored.
MaxProfileLen == 4

\* Elevations of the short raw profiles, and the lengths of the long ones.
ElevValues == {-3, 0, 5}
LongLengths == {512, 1023}

\* Raw profiles of at least 2 values.
Profiles ==
    UNION {[1..k -> ElevValues] : k \in 2..MaxProfileLen}
    \cup {[j \in 1..n |-> j % 7] : n \in LongLengths}

\* What a read outside an array gives (undefined).
Missing == [missing |-> TRUE]

\* vals[idx], undefined outside the array.
Elem(vals, idx) == IF idx + 1 \in DOMAIN vals THEN vals[idx + 1] ELSE Missing

\* getControlPoints(vals): for every segment the indices it reads and its two
\* control values, p1 + (p2 - p0) * 0.33 / 2 and p2 - (p3 - p1) * 0.33 / 2.
getControlPoints(vals) ==
    [k \in 1..(Len(vals) - 1) |->
        LET i == k - 1
            reads == <<Max(0, i - 1), i, i + 1, Min(Len(vals) - 1, i + 2)>>
            p0 == Elem(vals, reads[1])
            p1 == Elem(vals, reads[2])
            p2 == Elem(vals, reads[3])
            p3 == Elem(vals, reads[4])
        IN  [reads |-> reads,
             cp1 |-> Rat(200 * p1 + 33 * (p2 - p0), 200),
             cp2 |-> Rat(200 * p2 - 33 * (p3 - p1), 200)]]

\* segmentIndex as it would be without Math.min(elevationProfile.length - 2, ...).
segmentIndexUnclamped(len, q) == q

\* const i = Math.min(elevationProfile.length - 2, Math.floor(segFloat)),
\* with q the floor.
segmentIndex(len, q) == Min(len - 2, q)

\* The weights of p1, cp1, cp2 and p2 in a sample at localT = k / 511, over
\* the common denominator 511^3.
Weights(k) ==
    LET D == sampleCount - 1
    IN  <<(D - k) * (D - k) * (D - k), 3 * (D - k) * (D - k) * k,
          3 * (D - k) * k * k, k * k * k>>

\* oneMinusT**3 * p1 + 3*oneMinusT**2*localT*cp1 + 3*oneMinusT*localT**2*cp2
\* + localT**3 * p2: the value itself where one weight is 1 and the others
\* are 0, the weighted sum as it stands elsewhere.
Blend(w, ctrl) ==
    IF w[2] = 0 /\ w[3] = 0 /\ w[4] = 0 THEN ctrl[1]
    ELSE IF w[1] = 0 /\ w[2] = 0 /\ w[3] = 0 THEN ctrl[4]
    ELSE [w |-> w, ctrl |-> ctrl]

\* Sample s of the curve: the segment it falls into (i, and the segment
\* below where the rounded product s / 511 * (length - 1) may fall short of
\* an integer), the indices read and the value.
Sample(vals, cps, s) ==
    LET D == sampleCount - 1
        segNum == s * (Len(vals) - 1)
        i == segmentIndex(Len(vals), segNum \div D)
        k == segNum - i * D
        exact == segNum % D = 0 /\ s # 0 /\ s # D
        hasCps == i + 1 \in DOMAIN cps
    IN  [i |-> i,
         below |-> IF exact THEN segmentIndex(Len(vals), (segNum \div D) - 1) ELSE i,
         reads |-> <<i, i + 1>>,
         val |-> Blend(Weights(k),
                       <<Elem(vals, i), IF hasCps THEN cps[i + 1].cp1 ELSE Missing,
                         IF hasCps THEN cps[i + 1].cp2 ELSE Missing, Elem(vals, i + 1)>>)]

\* The loop for (let s = 0; s < sampleCount; s++) smoothed.push(val).
Smoothed(vals, cps) == [s \in 1..sampleCount |-> Sample(vals, cps, s - 1)]

\* The drawing effect computes the curve of the profile vals.
smoothCall(vals) ==
    /\ call' = [op |-> "smooth", vals |-> vals, cps |-> getControlPoints(vals),
                smoothed |-> Smoothed(vals, getControlPoints(vals))]
    /\ UNCHANGED <<histVars, elevVars, routeInfo, playVars, drawVars>>

\* Colours of the gradient segments of drawGradientRoute.
startColor == <<0, 117, 190>>
endColor == <<128, 196, 255>>

\* The number 0 / 0.
NaN == [nan |-> TRUE]

\* const t = i / (coords.length - 2), for segment i of a route of n
\* coordinates; i is 0 where the divisor is 0.
fraction(n, i) == IF n - 2 = 0 THEN NaN ELSE Rat(i, n - 2)

\* Math.round(a + (b - a) * t); Math.round(NaN) is NaN.
lerp(a, b, t) ==
    IF t = NaN
    THEN NaN
    ELSE (2 * (a * t.den + (b - a) * t.num) + t.den) \div (2 * t.den)

\* The channels of the rgb(...) colour of segment i.
segmentColor(n, i) ==
    [c \in 1..3 |-> lerp(startColor[c], endColor[c], fraction(n, i))]

\* Cleanup of the routing effect when it runs again because the waypoints
\* changed: the segments drawn for the previous control are removed.
routingEffectCleanup ==
    IF waypointsRef' # waypointsRef THEN clearSegments ELSE UNCHANGED drawVars

\* What a re-render does to the player panel: its closures see isPlaying.
renderPlayback ==
    /\ rIsPlaying' = isPlaying
    /\ UNCHANGED <<isPlaying, duration, progress, playerMarker, animationFrameRef,
                   startTimeRef, frames, nextFrame, now, lastFrame, routeInfo>>
    /\ UNCHANGED <<elevVars, call>>
    /\ routingEffectCleanup

\* The rest of commitWaypoints, after the history updates of a commit that
\* took effect: with fewer than 2 waypoints left it drops the route info, the
\* gradient segments and the stored coordinates.
commitDownstream ==
    IF lastOp'.committed /\ Len(waypoints') < 2
    THEN /\ routeInfo' = FALSE
         /\ clearSegments
         /\ routeCoordinatesLen' = 0
         /\ UNCHANGED <<elevationProfile, elevationError, elevationLoading,
                        showElevation, runs>>
         /\ UNCHANGED <<playVars, call>>
    ELSE /\ UNCHANGED <<elevVars, routeInfo, playVars, call>>
         /\ routingEffectCleanup

\* A route arrives for the waypoints the routing control was created with.
routesFoundForWaypoints(n) ==
    /\ Len(waypoints) >= 2
    /\ ~renderPending
    /\ routesFound(n)

\* Map 'zoomend': the stored coordinates are drawn again.
zoomend ==
    /\ Mounted
    /\ drawGradientRoute(routeCoordinatesLen)
    /\ UNCHANGED <<histVars, elevVars, routeInfo, playVars, call>>

\* The routing control's 'routingstart': the old segments are removed.
routingStart ==
    /\ Mounted
    /\ clearSegments
    /\ UNCHANGED <<histVars, elevVars, routeInfo, playVars, call>>

----------------------------------------------------------------------------

\* The state once the component has mounted and its effects have run.
InitFrom(lists) ==
    /\ waypoints \in lists
    /\ history = <<waypoints>>
    /\ historyIndex = 0
    /\ rHistory = history
    /\ rHistoryIndex = 0
    /\ waypointsRef = waypoints
    /\ handlerIdx = 0
    /\ wpSlot = 0
    /\ clickTimeout = NoTimer
    /\ drag = NoDrag
    /\ renderPending = FALSE
    /\ commits = 0
    /\ lastOp = [op |-> "none", committed |-> FALSE, clicks |-> 0, appended |-> FALSE,
                 before |-> << >>]
    /\ elevationProfile = NullProfile
    /\ elevationError = FALSE
    /\ elevationLoading = FALSE
    /\ showElevation = FALSE
    /\ routeCoordinatesLen = 0
    /\ runs = << >>
    /\ routeInfo = FALSE
    /\ isPlaying = FALSE
    /\ rIsPlaying = FALSE
    /\ duration = 5
    /\ progress = Zero
    /\ playerMarker = NoMarker
    /\ animationFrameRef = 0
    /\ startTimeRef = 0
    /\ frames = {}
    /\ nextFrame = 1
    /\ now = 0
    /\ lastFrame = NoFrame
    /\ routeSegmentsRef = << >>
    /\ mapSegments = EmptyBag
    /\ call = NoCall

Init == InitFrom(InitialLists)

\* Editing the route.
Next ==
    \/ Render /\ renderPlayback
    \/ \E p \in Points : clickHandler(p) /\ UNCHANGED <<elevVars, routeInfo, playVars, drawVars, call>>
    \/ clickTimerFire /\ commitDownstream
    \/ \E p \in Points : dblClickHandler(p) /\ commitDownstream
    \/ \E k \in 0..(Len(waypoints) - 1) : dragStart(k) /\ UNCHANGED <<elevVars, routeInfo, playVars, drawVars, call>>
    \/ \E p \in Points, t \in BOOLEAN : dragEnd(p, t) /\ commitDownstream
    \/ undo /\ UNCHANGED <<elevVars, routeInfo, playVars, call>> /\ routingEffectCleanup
    \/ redo /\ UNCHANGED <<elevVars, routeInfo, playVars, call>> /\ routingEffectCleanup
    \/ clearButton /\ clearRoutePlayback /\ rIsPlaying' = isPlaying'
    \/ clearAsync /\ clearRoutePlayback /\ UNCHANGED rIsPlaying

Spec == Init /\ [][Next]_vars

\* The elevation pipeline of the routes found.
ElevNext ==
    \/ \E n \in PathLengths : routesFound(n)
    \/ \E r \in DOMAIN runs, outcome \in Outcomes : fetchResolves(r, outcome)
    \/ \E r \in DOMAIN runs : backoffElapses(r)
    \/ toggleElevation

ElevSpec == Init /\ [][ElevNext]_vars

\* Every awaited fetch resolves or rejects, and every backoff timer fires.
ElevFairness ==
    \A r \in 1..MaxRuns :
        /\ WF_vars(\E outcome \in Outcomes : fetchResolves(r, outcome))
        /\ WF_vars(backoffElapses(r))

ElevFairSpec == ElevSpec /\ ElevFairness

\* The elevation pipeline when no two runs overlap.
ElevSeqNext ==
    \/ \E n \in PathLengths : routesFoundWhenIdle(n)
    \/ \E r \in DOMAIN runs, outcome \in Outcomes : fetchResolves(r, outcome)
    \/ \E r \in DOMAIN runs : backoffElapses(r)
    \/ toggleElevation

\* A plain load: no shared route to edit.
ElevSeqInit == Init /\ waypoints = << >>

ElevSeqSpec == ElevSeqInit /\ [][ElevSeqNext]_vars

\* The down-sampling of fetchElevation alone: one call with a route of any
\* length up to MaxCoords, observed at its first await.
SampleNext ==
    \E n \in 1..MaxCoords : runs = << >> /\ routesFoundHandler(n)

SampleSpec == ElevSeqInit /\ [][SampleNext]_vars

\* Route lengths around the chunk size and the sample limit.
ChunkLengths == {2, 99, 100, 101, 200, 201, 1100}

\* One elevation pipeline run, from the call to its end, for a route of one of
\* the lengths of ChunkLengths.
ChunkNext ==
    \/ \E n \in ChunkLengths : runs = << >> /\ routesFoundHandler(n)
    \/ \E r \in DOMAIN runs, outcome \in Outcomes : fetchResolves(r, outcome)
    \/ \E r \in DOMAIN runs : backoffElapses(r)

ChunkSpec == ElevSeqInit /\ [][ChunkNext]_vars

\* Playback of the route found.
PlayNext ==
    \/ \E n \in PathLengths : routesFound(n)
    \/ togglePlay
    \/ \E f \in frames, gap \in FrameGaps : animateRoute(f, now + gap)
    \/ \E value \in DurationInputs : durationChange(value)
    \/ clearButton /\ clearRoutePlayback /\ rIsPlaying' = isPlaying'
    \/ clearAsync /\ clearRoutePlayback /\ UNCHANGED rIsPlaying
    \/ Render /\ renderPlayback

PlaySpec == ElevSeqInit /\ [][PlayNext]_vars

\* Route lengths drawn: no segment, one, two.
DrawLengths == {1, 2, 3}

\* The gradient renderer under a sequence of routes, zooms and clears.
DrawNext ==
    \/ \E n \in DrawLengths : routesFoundWhenIdle(n)
    \/ \E r \in DOMAIN runs, outcome \in Outcomes : fetchResolves(r, outcome)
    \/ \E r \in DOMAIN runs : backoffElapses(r)
    \/ zoomend
    \/ routingStart
    \/ clearButton /\ clearRoutePlayback /\ rIsPlaying' = isPlaying'

DrawSpec == ElevSeqInit /\ [][DrawNext]_vars

\* Editing a shared route of two waypoints while its route and elevation
\* profile arrive.
EditNext ==
    \/ \E n \in PathLengths : routesFoundForWaypoints(n)
    \/ \E r \in DOMAIN runs, outcome \in Outcomes : fetchResolves(r, outcome)
    \/ \E r \in DOMAIN runs : backoffElapses(r)
    \/ \E k \in 0..(Len(waypoints) - 1) :
           dragStart(k) /\ UNCHANGED <<elevVars, routeInfo, playVars, drawVars, call>>
    \/ \E p \in Points, t \in BOOLEAN : dragEnd(p, t) /\ commitDownstream
    \/ undo /\ UNCHANGED <<elevVars, routeInfo, playVars, call>> /\ routingEffectCleanup
    \/ redo /\ UNCHANGED <<elevVars, routeInfo, playVars, call>> /\ routingEffectCleanup
    \/ clearButton /\ clearRoutePlayback /\ rIsPlaying' = isPlaying'

\* The page opened from a shared link with two waypoints.
EditInit == Init /\ Len(waypoints) = 2

EditSpec == EditInit /\ [][EditNext]_vars

\* One call of a helper function on arguments of its own.
KernelNext ==
    \/ \E clickPoint \in ClickPoints, wps \in Paths, getZoom \in 0..MaxZoom :
           call = NoCall /\ findClosestSegmentCall(clickPoint, wps, getZoom)
    \/ \E point \in ClickPoints \cup PathPoints, start \in PathPoints, end \in PathPoints :
           call = NoCall /\ distanceToSegmentCall(point, start, end)

KernelSpec == ElevSeqInit /\ [][KernelNext]_vars

\* A waypoint list is shared and the link is opened.
ShareNext ==
    \/ call = NoCall /\ shareRoute
    \/ RoutePage

ShareSpec == InitFrom(ShareLists) /\ [][ShareNext]_vars

\* A page is opened with a route parameter that is absent or broken.
LoadNext ==
    \E raw \in RawTexts : call = NoCall /\ pageLoad(raw)

LoadSpec == ElevSeqInit /\ [][LoadNext]_vars

\* The curve of one raw profile is computed.
SmoothNext ==
    \E vals \in Profiles : call = NoCall /\ smoothCall(vals)

SmoothSpec == ElevSeqInit /\ [][SmoothNext]_vars

\* One request to the elevation endpoint.
ApiNext ==
    \/ \E body \in Bodies : call = NoCall /\ POST(body)
    \/ bodyRead
    \/ \E outcome \in ProviderOutcomes : providerResponds(outcome)
    \/ \E isJSON \in BOOLEAN : dataRead(isJSON)

ApiSpec == ElevSeqInit /\ [][ApiNext]_vars

\* Playback while the shared route is edited by dragging its markers.
PlayEditNext ==
    \/ \E n \in PathLengths : routesFoundForWaypoints(n)
    \/ togglePlay
    \/ \E f \in frames, gap \in FrameGaps : animateRoute(f, now + gap)
    \/ \E k \in 0..(Len(waypoints) - 1) :
           dragStart(k) /\ UNCHANGED <<elevVars, routeInfo, playVars, drawVars, call>>
    \/ \E p \in Points, t \in BOOLEAN : dragEnd(p, t) /\ commitDownstream
    \/ clearButton /\ clearRoutePlayback /\ rIsPlaying' = isPlaying'
    \/ Render /\ renderPlayback

PlayEditSpec == EditInit /\ [][PlayEditNext]_vars

\* The browser delivers every animation frame that was requested.
FrameFairness == WF_vars(\E f \in frames, gap \in FrameGaps : animateRoute(f, now + gap))

PlayEditFairSpec == PlayEditSpec /\ FrameFairness

\* Playback where the first frame may carry the timestamp 0 of the time origin.
PlayZeroNext ==
    \/ \E n \in PathLengths : routesFound(n)
    \/ togglePlay
    \/ \E f \in frames : now = 0 /\ animateRoute(f, 0)
    \/ \E f \in frames, gap \in FrameGaps : animateRoute(f, now + gap)
    \/ Render /\ renderPlayback

PlayZeroSpec == ElevSeqInit /\ [][PlayZeroNext]_vars

\* Elevation runs of successive routes that may overlap.
OverlapNext ==
    \/ \E n \in OverlapLengths : routesFoundOverlapping(n)
    \/ \E r \in DOMAIN runs, outcome \in Outcomes : fetchResolves(r, outcome)
    \/ \E r \in DOMAIN runs : backoffElapses(r)

OverlapSpec == ElevSeqInit /\ [][OverlapNext]_vars

----------------------------------------------------------------------------
(* WaypointHistory: the triple the claims speak about. *)

HistoryState == <<waypoints, history, historyIndex>>

\* C1: the current waypoint list always equals history[historyIndex], after any
\* sequence of commit, undo, redo and clear, commits from the delayed
\* single-click timer and from a marker drag end included.
C1_CurrentIsSnapshotAtCursor ==
    Mounted => waypoints = At(history, historyIndex)

\* C2: the cursor stays inside the history, 0 <= historyIndex <= length - 1, and
\* the history is never empty.
C2_CursorInsideHistory ==
    /\ Len(history) >= 1
    /\ 0 <= historyIndex
    /\ historyIndex <= Len(history) - 1

\* A step that is a call commitWaypoints(A) from one of the three committing
\* handlers.
CommitCall(A) ==
    \/ clickTimerFire /\ TimerList = A
    \/ \E p \in Points :
          dblClickHandler(p) /\ Len(waypointsRef) >= 2 /\ DblClickList(p) = A
    \/ \E p \in Points, t \in BOOLEAN :
          dragEnd(p, t) /\ DragIdxValid /\ DragEndList(p, t) = A

\* C3: a commit whose list is structurally equal to the current list changes
\* neither the history, the cursor nor the current list, whether or not the
\* host has re-rendered since the list became current; so commit(A) followed
\* by commit(A) leaves the history length unchanged.
C3_CommitOfCurrentListIsNoOp ==
    [][CommitCall(waypoints) => UNCHANGED HistoryState]_vars

\* What a commit of A is said to do when A differs from the current list.
CommitPost(A) ==
    (A # waypoints) =>
        /\ historyIndex + 1 <= Len(history)
        /\ history' = SubSeq(history, 1, historyIndex + 1) \o <<A>>
        /\ historyIndex' = historyIndex + 1
        /\ historyIndex' = Len(history') - 1
        /\ waypoints' = A

\* C4: a commit of a list differing from the current one, with the cursor at
\* c, makes the history the old snapshots 0..c followed by the new list, the
\* cursor c + 1 (the last index) and the current list the new list.
C4_CommitTruncatesAndAppends ==
    [][/\ clickTimerFire => CommitPost(TimerList)
       /\ \A p \in Points :
             (dblClickHandler(p) /\ Len(waypointsRef) >= 2) => CommitPost(DblClickList(p))
       /\ \A p \in Points, t \in BOOLEAN :
             (dragEnd(p, t) /\ DragIdxValid) => CommitPost(DragEndList(p, t))]_vars

\* C5: undo with cursor > 0 decrements the cursor by exactly one, makes the
\* current list the snapshot stored at the new cursor and leaves the history
\* unchanged; with the cursor at 0 it changes nothing.
C5_UndoStepsBackOne ==
    [][undo =>
          IF historyIndex > 0
          THEN /\ historyIndex' = historyIndex - 1
               /\ history' = history
               /\ historyIndex' < Len(history')
               /\ waypoints' = At(history', historyIndex')
          ELSE UNCHANGED HistoryState]_vars

\* C6: redo with cursor < length - 1 increments the cursor by exactly one,
\* makes the current list the snapshot at the new cursor and leaves the
\* history unchanged; with the cursor at the last index it changes nothing.
C6_RedoStepsForwardOne ==
    [][redo =>
          IF historyIndex < Len(history) - 1
          THEN /\ historyIndex' = historyIndex + 1
               /\ history' = history
               /\ waypoints' = At(history', historyIndex')
          ELSE UNCHANGED HistoryState]_vars

----------------------------------------------------------------------------
(* ElevationPipeline *)

\* The step in which run r returns from fetchElevation.
Finishes(r) == runs[r].pc # "done" /\ runs'[r].pc = "done"

\* What a provider returns for the whole down-sampled route of n coordinates,
\* as elevations.
ExpectedProfile(api, n) == Elevations(Results(api, n, Sampled(n)))

\* The provider's run ended in an error, by exhausted retries or by a response
\* without results.
Failed(outcome) == outcome \in {"exhausted", "invalid"}

\* C9: when the primary fails every attempt for some chunk and the secondary
\* succeeds for all chunks, the profile stored by the run is exactly the
\* secondary's result (nothing the primary delivered before failing is kept),
\* the run never sets the unavailable flag, and the flag is clear when the run
\* ends unless another run set it.
C9_FallbackStoresSecondaryResult ==
    [][\A r \in DOMAIN runs :
          (/\ Finishes(r)
           /\ runs'[r].primaryOutcome = "exhausted"
           /\ runs'[r].secondaryOutcome = "succeeded") =>
              /\ elevationProfile' = Stored(ExpectedProfile(secondary, runs[r].n))
              /\ ~runs'[r].setError
              /\ (\A q \in DOMAIN runs : ~runs'[q].setError) => ~elevationError']_vars

\* A two-chunk run has ended on the secondary's result after the primary had
\* delivered its first chunk and then failed three times on the second.
C9_Witness_FallbackAfterPartialPrimary ==
    \E r \in DOMAIN runs :
        /\ runs[r].pc = "done"
        /\ runs[r].n = 150
        /\ runs[r].primaryOutcome = "exhausted"
        /\ runs[r].primaryGathered = chunkSize
        /\ runs[r].secondaryOutcome = "succeeded"
        /\ elevationProfile = Stored(ExpectedProfile(secondary, 150))
        /\ ~elevationError

\* C10: the unavailable flag is raised only by a run in the step in which its
\* secondary provider fails after its primary had failed; that step stores
\* nothing of the run's partly gathered curve and hides the chart; a run ending
\* that way always raises the flag, and no run raises it while one of its
\* providers is untried, still running or has succeeded.
C10_UnavailableOnlyOnTotalExhaustion ==
    [][/\ (elevationError' /\ ~elevationError) =>
             \E r \in DOMAIN runs :
                 /\ Finishes(r)
                 /\ Failed(runs'[r].primaryOutcome)
                 /\ Failed(runs'[r].secondaryOutcome)
                 /\ elevationProfile' = elevationProfile
                 /\ ~showElevation'
       /\ \A r \in DOMAIN runs :
             Finishes(r) =>
                 /\ runs'[r].setError <=>
                        (Failed(runs'[r].primaryOutcome) /\ Failed(runs'[r].secondaryOutcome))
                 /\ runs'[r].setError => elevationError'
       /\ \A r \in DOMAIN runs' :
             runs'[r].setError =>
                 /\ runs'[r].pc = "done"
                 /\ Failed(runs'[r].primaryOutcome)
                 /\ Failed(runs'[r].secondaryOutcome)]_vars

\* A two-chunk run has raised the flag after the secondary had delivered its
\* first chunk and then failed on the second: none of it is stored.
C10_Witness_UnavailableAfterPartialSecondary ==
    \E r \in DOMAIN runs :
        /\ runs[r].pc = "done"
        /\ runs[r].setError
        /\ runs[r].n = 150
        /\ Len(runs[r].elevations) = chunkSize
        /\ elevationError
        /\ elevationProfile = NullProfile
        /\ ~showElevation

\* The run ended with a stored profile.
Succeeded(run) == "succeeded" \in {run.primaryOutcome, run.secondaryOutcome}

C12_MissingResultsIsRetriedLikeAnError ==
    [][\A r \in DOMAIN runs :
          fetchResolves(r, "noResults") =>
              IF runs[r].i < retries
              THEN /\ runs'[r].pc = "backoff"
                   /\ runs'[r].api = runs[r].api
                   /\ runs'[r].chunk = runs[r].chunk
              ELSE \/ runs[r].api = primary /\ runs'[r].api = secondary
                   \/ runs[r].api = secondary /\ runs'[r].setError]_vars

\* C13: for each chunk and provider the lookup is attempted at most
\* retries + 1 = 3 times; an attempt after the first is made only when a
\* backoff wait has elapsed after a failed attempt of the same chunk at the
\* same provider; a failed attempt with retries left leads to the backoff
\* wait; and when the last attempt fails, the provider's run is over: the run
\* turns to the other provider or ends, and no later chunk is requested.
C13_BoundedAttemptsWithBackoff ==
    [][\A r \in DOMAIN runs :
          /\ runs'[r].i \in 0..retries
          /\ (runs'[r].pc = "fetching" /\ runs'[r].i > 0
                /\ <<runs'[r].pc, runs'[r].i>> # <<runs[r].pc, runs[r].i>>) =>
                 runs[r].pc = "backoff"
          /\ (runs[r].pc = "backoff" /\ runs'[r] # runs[r]) =>
                 /\ runs'[r].pc = "fetching"
                 /\ runs'[r].i = runs[r].i + 1
                 /\ runs'[r].api = runs[r].api
                 /\ runs'[r].chunk = runs[r].chunk
          /\ (fetchResolves(r, "failed") /\ runs[r].i < retries) =>
                 runs'[r].pc = "backoff"
          /\ (fetchResolves(r, "failed") /\ runs[r].i = retries) =>
                 /\ runs'[r].pc = "done" \/ runs'[r].api # runs[r].api
                 /\ runs[r].api = primary => runs'[r].primaryOutcome = "exhausted"
                 /\ runs[r].api = secondary => runs'[r].secondaryOutcome = "exhausted"
                 /\ runs'[r].chunk = 0]_vars

\* A two-chunk run in which each provider failed three times on its first
\* chunk: the run has ended without a second chunk ever being requested.
C13_Witness_BothExhaustedOnFirstChunk ==
    \E r \in DOMAIN runs :
        /\ runs[r].pc = "done"
        /\ runs[r].n = 150
        /\ runs[r].primaryOutcome = "exhausted"
        /\ runs[r].primaryGathered = 0
        /\ runs[r].secondaryOutcome = "exhausted"
        /\ runs[r].elevations = << >>

\* C14: provided every remote call eventually resolves or rejects, every run
\* of fetchElevation returns; the step that ends it clears the loading flag
\* and either stores the profile the run gathered or sets the unavailable
\* flag, so that no failure leaves the run without one of the two.
C14_EveryRunTerminates ==
    /\ [][\A r \in DOMAIN runs :
             Finishes(r) =>
                 /\ ~elevationLoading'
                 /\ \/ /\ Succeeded(runs'[r])
                       /\ ~runs'[r].setError
                       /\ elevationProfile' = Stored(runs'[r].elevations)
                    \/ /\ ~Succeeded(runs'[r])
                       /\ runs'[r].setError
                       /\ elevationError']_vars
    /\ \A r \in 1..MaxRuns : InFlight(r) ~> (r \in DOMAIN runs /\ runs[r].pc = "done")

\* A run that ended by the secondary's answer after the primary had answered
\* without results.
C14_Witness_EndedOnSecondaryAfterInvalidPrimary ==
    \E r \in DOMAIN runs :
        /\ runs[r].pc = "done"
        /\ runs[r].primaryOutcome = "invalid"
        /\ runs[r].secondaryOutcome = "succeeded"
        /\ ~elevationLoading
        /\ elevationProfile = Stored(runs[r].elevations)

\* C15: for every route of n >= 2 points the down-sampled set, taken with
\* step max(1, floor(n / 512)), has at most 512 points, starts with the
\* route's first point and keeps the points in route order.
C15_SampleHasAtMost512Points ==
    \A r \in DOMAIN runs :
        LET sampled == runs[r].sampled
        IN  /\ runs[r].n >= 2
            /\ Len(sampled) <= maxSamples
            /\ sampled[1] = 0
            /\ \A j \in 1..(Len(sampled) - 1) : sampled[j] < sampled[j + 1]

----------------------------------------------------------------------------
(* PlaybackAnimator *)

\* The marker is on the map at the route's fractional index num / den.
MarkerAtFraction(marker, num, den) ==
    /\ marker.present
    /\ marker.placed
    /\ (marker.idx * marker.t.den + marker.t.num) * den = num * marker.t.den
    /\ RatLess(marker.t, One)

\* C16: in a run started with duration 5 s on a route that has at least 2
\* points, the frame delivered at the first frame's timestamp T yields
\* progress 0, the frame at T + 2500 ms yields progress 1/2, each with the
\* marker at the fractional index progress * (len - 1) and the next frame
\* requested, and the frame at T + 5000 ms computes progress 1, after which
\* isPlaying is false, progress is back to 0, the start timestamp is cleared,
\* the marker is removed and no frame is pending.
C16_FiveSecondRunReachesHalfAndEnd ==
    [][\A f \in frames, gap \in FrameGaps :
          (animateRoute(f, now + gap) /\ f.duration = 5 /\ routeCoordinatesLen >= 2) =>
              LET T == IF startTimeRef = 0 THEN now + gap ELSE startTimeRef
                  elapsed == now + gap - T
                  len == routeCoordinatesLen
              IN  /\ elapsed = 0 =>
                        /\ progress' = Zero
                        /\ MarkerAtFraction(playerMarker', 0, 1)
                        /\ isPlaying'
                        /\ Cardinality(frames') = 1
                  /\ elapsed = 2500 =>
                        /\ progress' = [num |-> 1, den |-> 2]
                        /\ MarkerAtFraction(playerMarker', len - 1, 2)
                        /\ isPlaying'
                        /\ Cardinality(frames') = 1
                  /\ elapsed = 5000 =>
                        /\ lastFrame'.newProgress = One
                        /\ ~isPlaying'
                        /\ progress' = Zero
                        /\ startTimeRef' = 0
                        /\ playerMarker' = NoMarker
                        /\ frames' = {}]_vars

\* The first run ever, on a route of at least 2 points with duration 5 s, has
\* just ended by its third frame, delivered 5000 ms after its first.
C16_Witness_CompletedByThirdFrame ==
    /\ lastFrame.ran
    /\ lastFrame.elapsed = 5000
    /\ lastFrame.duration = 5
    /\ nextFrame = 4
    /\ routeCoordinatesLen >= 2
    /\ ~isPlaying
    /\ progress = Zero
    /\ frames = {}

\* C17: pressing Play while the stored route has fewer than 2 points is
\* rejected without any change of the playback state: isPlaying stays
\* false, no animation frame is requested and no playback marker is created.
C17_StartNeedsTwoPoints ==
    [][(togglePlay /\ ~rIsPlaying /\ routeCoordinatesLen < 2) =>
          /\ ~isPlaying'
          /\ frames' = frames
          /\ playerMarker' = playerMarker
          /\ UNCHANGED <<isPlaying, progress, animationFrameRef, startTimeRef>>]_vars

\* The two ways playback is stopped: the Stop button, and clearRoute.
StopByButton == togglePlay /\ rIsPlaying
StopByClear == (clearButton \/ clearAsync) /\ clearRoutePlayback

\* C18: a stop while playing leaves no animation-frame callback pending, so
\* animateRoute runs only while isPlaying is true and nothing changes
\* progress, the start timestamp or the marker after the stop; at once
\* progress is 0 and the start timestamp is cleared; a stop while idle
\* changes none of isPlaying, progress, start timestamp, marker and pending
\* callbacks.
C18_StopCancelsAndResets ==
    [][/\ ((StopByButton \/ StopByClear) /\ isPlaying) =>
              /\ frames' = {}
              /\ ~isPlaying'
              /\ progress' = Zero
              /\ startTimeRef' = 0
              /\ playerMarker' = NoMarker
       /\ ((StopByButton \/ StopByClear) /\ ~isPlaying) =>
              /\ frames' = frames
              /\ playerMarker' = playerMarker
              /\ UNCHANGED <<isPlaying, progress, startTimeRef>>
       /\ \A f \in frames, gap \in FrameGaps : animateRoute(f, now + gap) => isPlaying]_vars

\* The start branch of togglePlay has started a run.
StartsPlayback == togglePlay /\ ~rIsPlaying /\ isPlaying'

\* C19: at most one animation-frame callback of animateRoute is pending at
\* any time, it is the one animationFrameRef holds, and it is pending only
\* while isPlaying is true; a run is started only when no callback of an
\* earlier run is pending, that is, after the earlier run was stopped or
\* has completed, and the start leaves exactly one callback pending.
C19_AtMostOneAnimationLoop ==
    [][/\ Cardinality(frames') <= 1
       /\ \A f \in frames' : f.id = animationFrameRef' /\ isPlaying'
       /\ StartsPlayback =>
              /\ ~isPlaying
              /\ frames = {}
              /\ Cardinality(frames') = 1]_vars

\* A second run has been started after the first was stopped with its
\* second frame pending.
C19_Witness_RestartedAfterStop ==
    /\ isPlaying
    /\ now = 500
    /\ startTimeRef = 0
    /\ frames = {[id |-> 3, duration |-> duration]}

\* A fraction within [0, 1].
InUnitInterval(p) == ~RatLess(p, Zero) /\ ~RatLess(One, p)

\* C20: the stored progress is always within [0, 1]; within a run, whose
\* frame timestamps never decrease, the progress a frame computes is within
\* [0, 1] and not below the progress stored by the frame before, and it is
\* what the frame stores unless it has reached 1; progress is 0 after a stop
\* and after the frame that completes the run.
C20_ProgressMonotoneInUnitInterval ==
    [][/\ InUnitInterval(progress')
       /\ \A f \in frames, gap \in FrameGaps :
              animateRoute(f, now + gap) =>
                  /\ now' >= now
                  /\ InUnitInterval(lastFrame'.newProgress)
                  /\ ~RatLess(lastFrame'.newProgress, progress)
                  /\ IF isPlaying' THEN progress' = lastFrame'.newProgress
                                   ELSE lastFrame'.newProgress = One /\ progress' = Zero
       /\ (StopByButton \/ StopByClear) => progress' = Zero]_vars

\* A run with duration 5 s whose latest frame, 3000 ms after the first,
\* stored progress 3/5.
C20_Witness_ThreeFifths ==
    /\ isPlaying
    /\ lastFrame.ran
    /\ lastFrame.elapsed = 3000
    /\ lastFrame.duration = 5
    /\ progress = [num |-> 3, den |-> 5]

----------------------------------------------------------------------------
(* GradientRenderer *)

\* One segment per pair of consecutive points of a path of n points, in path
\* order; none when n < 2.
ConsecutivePairs(n) == [k \in 1..(n - 1) |-> <<n, k - 1>>]

\* A step that renders a path: a route found, or a zoom redrawing the stored one.
Renders == (\E n \in DrawLengths : routesFoundWhenIdle(n)) \/ zoomend

\* C21: after a render of a path the segments drawn, held by the ref and shown
\* on the map, are exactly one per pair of consecutive points in path order
\* (length - 1 of them) when the path has at least 2 points and none when it has
\* fewer, whatever was drawn before; so a second render of the same path leaves
\* the same segments.
C21_RenderDrawsExactlyConsecutivePairs ==
    [][Renders =>
        /\ routeSegmentsRef' = ConsecutivePairs(routeCoordinatesLen')
        /\ mapSegments' = SetToBag({ConsecutivePairs(routeCoordinatesLen')[k] :
                                      k \in 1..(routeCoordinatesLen' - 1)})
        /\ Len(routeSegmentsRef') = IF routeCoordinatesLen' >= 2
                                    THEN routeCoordinatesLen' - 1 ELSE 0]_vars

\* A 2-point route drawn over what a 3-point route had left.
C21_Witness_ShortRouteOverLongOne ==
    /\ Len(runs) = 2
    /\ runs[1].n = 3
    /\ runs[2].n = 2
    /\ routeSegmentsRef = <<(<<2, 0>>)>>
    /\ mapSegments = SetToBag({<<2, 0>>})

----------------------------------------------------------------------------
(* Downstream display state *)

\* Nothing of a route is left: no route info, no stored coordinates, no gradient
\* segment, no elevation profile, no playback marker, playback idle.
DownstreamCleared ==
    /\ routeInfo = FALSE
    /\ routeCoordinatesLen = 0
    /\ routeSegmentsRef = << >>
    /\ mapSegments = EmptyBag
    /\ elevationProfile = NullProfile
    /\ ~playerMarker.present
    /\ ~isPlaying
    /\ progress = Zero

\* C22: whenever the waypoint list becomes empty (by a commit, an undo, a redo
\* or a clear), all downstream display state is cleared in that step: route
\* info, stored route coordinates, gradient segments, elevation profile and
\* the playback marker and controls.
C22_EmptyWaypointsClearDownstream ==
    [][(waypoints # << >> /\ waypoints' = << >>) => DownstreamCleared']_vars

----------------------------------------------------------------------------
(* GeometryKernel *)

\* Squared Euclidean distance between two points.
SquaredDistance(p, q) == (p[1] - q[1]) * (p[1] - q[1]) + (p[2] - q[2]) * (p[2] - q[2])

\* C23: for every path of at least 2 points and every point the nearest-segment
\* lookup returns the insertion index i + 1 of a consecutive pair whose
\* point-to-segment distance is minimal, and it returns none exactly when the
\* path has fewer than 2 points.
C23_NearestSegmentIndexForEveryPath ==
    call.op = "findClosestSegment" =>
        LET wps == call.waypoints
            Dist(i) == distanceToSegment(call.clickPoint, wps[i + 1], wps[i + 2])
        IN  IF Len(wps) < 2 THEN call.result.isNull
            ELSE /\ ~call.result.isNull
                 /\ \E i \in 0..(Len(wps) - 2) :
                        /\ call.result.index = i + 1
                        /\ \A j \in 0..(Len(wps) - 2) : ~Less(Dist(j), Dist(i))

\* C24: at every integer zoom level z >= 0 the threshold is
\* max(minThreshold, baseThreshold * 2^(13 - z)) with baseThreshold 0.0005 and
\* minThreshold 0.001, that is 2^(13 - z) / 2000 up to zoom 12 and 1/1000 above.
C24_ThresholdFormulaAtEveryZoom ==
    call.op = "findClosestSegment" =>
        call.threshold = IF call.zoom <= 12 THEN Rat(2^(13 - call.zoom), 2000)
                         ELSE Rat(1, 1000)

\* C25: on a degenerate segment (start = end) distanceToSegment is the
\* Euclidean distance from the point to start, and whenever the projection of
\* the point falls outside the segment it is the distance to the nearer
\* endpoint.
C25_DegenerateAndClampedDistance ==
    call.op = "distanceToSegment" =>
        LET toStart == SquaredDistance(call.point, call.start)
            toEnd == SquaredDistance(call.point, call.end)
            dot == (call.point[1] - call.start[1]) * (call.end[1] - call.start[1])
                   + (call.point[2] - call.start[2]) * (call.end[2] - call.start[2])
            len_sq == SquaredDistance(call.start, call.end)
        IN  /\ call.start = call.end => call.result.n = toStart * call.result.d
            /\ (dot < 0 \/ dot > len_sq) =>
                   call.result.n = Min(toStart, toEnd) * call.result.d

\* The point (5, 11) against the segment (0, 0)-(0, 10): its projection falls
\* beyond the end, the distance is that to (0, 10).
C25_Witness_BeyondTheEnd ==
    /\ call.op = "distanceToSegment"
    /\ call.point = <<5, 11>>
    /\ call.start = <<0, 0>>
    /\ call.end = <<0, 10>>
    /\ call.result = [n |-> 26, d |-> 1]

----------------------------------------------------------------------------
(* Share link *)

\* C26: for every non-empty waypoint list, decoding the route parameter that
\* shareRoute produced gives the original list: the same coordinates in the
\* same order.
C26_ShareLinkRoundTrip ==
    call.op = "RoutePage" => (waypoints # << >> /\ call.initialWaypoints = waypoints)

\* A list with a negative, a fractional and a three-digit coordinate came back.
C26_Witness_TwoPointsDecoded ==
    /\ call.op = "RoutePage"
    /\ waypoints = <<(<<-15, 120>>), (<<0, -15>>)>>
    /\ call.initialWaypoints = waypoints
    /\ call.routeData = <<"%", "5", "B", "%", "5", "B", "-", "1", ".", "5", "%", "2", "C",
                          "1", "2", "%", "5", "D", "%", "2", "C", "%", "5", "B", "0",
                          "%", "2", "C", "-", "1", ".", "5", "%", "5", "D", "%", "5", "D">>

----------------------------------------------------------------------------
(* Elevation endpoint *)

\* The body is JSON and its locations is missing or not an array.
LocationsMissingOrNotArray ==
    \/ call.body.kind = "null"
    \/ call.body.kind = "value" /\ call.body.locations.type # "array"

\* C27: the endpoint answers every POST with exactly one response, the
\* provider's data or an error, and nothing propagates out of the handler: a
\* body whose locations is missing or not an array gets 400 without a request
\* to a provider; a provider status that is not OK or any thrown error gets 500.
C27_OneResponsePerRequest ==
    call.op = "POST" =>
        /\ call.pc # "uncaught"
        /\ Len(call.responses) = (IF call.pc = "returned" THEN 1 ELSE 0)
        /\ call.pc # "returned" => ENABLED ApiNext
        /\ call.pc = "returned" =>
               LET r == call.responses[1]
               IN  /\ r.status \in {200, 400, 500}
                   /\ r.status = 200 =>
                          r.body = "provider data" /\ call.providerOutcome = "status200"
                   /\ LocationsMissingOrNotArray =>
                          r.status = 400 /\ call.providerRequests = << >>
                   /\ r.status = 400 => LocationsMissingOrNotArray
                   /\ (call.providerOutcome \notin {"none", "status200"}
                       \/ call.data = "not JSON"
                       \/ call.body.kind = "unparsable") => r.status = 500

----------------------------------------------------------------------------
(* Playback while editing *)

\* PlaybackController is Idle.
Idle ==
    /\ ~isPlaying
    /\ progress = Zero
    /\ frames = {}
    /\ ~playerMarker.present

\* No further frame can be delivered within the bounds of the model.
FramesExhausted == nextFrame > MaxFrames \/ now + 500 > MaxTime

\* C28: once playback of a route of at least 2 points has started, under fair
\* delivery of animation frames it eventually returns to Idle (not playing,
\* progress 0, no pending frame, marker removed), also when the stored route is
\* replaced, shortened below 2 points or cleared by a commit while playing.
C28_PlaybackEventuallyIdle ==
    (isPlaying /\ routeCoordinatesLen >= 2) ~> (Idle \/ FramesExhausted)

\* The start timestamp a frame has used: its timestamp less its elapsed time.
StartUsed(timestamp, frame) == timestamp - frame.elapsed

\* C29: the start timestamp is recorded on the first animation frame of a run
\* and every later frame of the run uses that same value, whatever the
\* timestamps are, 0 included.
C29_StartTimestampKeptForTheRun ==
    [][(lastFrame.ran /\ lastFrame'.ran /\ now' # now) =>
          StartUsed(now', lastFrame') = StartUsed(now, lastFrame)]_vars

----------------------------------------------------------------------------
(* Overlapping elevation runs *)

\* Run r stores its profile in this step.
StoresProfile(r) ==
    /\ runs[r].pc # "done"
    /\ runs'[r].pc = "done"
    /\ Succeeded(runs'[r])

\* C30: a fetch that starts while an earlier one is in flight does not cancel
\* it, and every run that ends with elevations stores them when it resolves,
\* whether or not a newer run exists, while nothing else changes the profile:
\* the profile finally stored is that of the run that resolved last, even when
\* that is the run of the older route.
C30_LastRunToResolveWins ==
    [][/\ \A r \in DOMAIN runs :
             (Len(runs') > Len(runs) /\ InFlight(r)) => runs'[r] = runs[r]
       /\ \A r \in DOMAIN runs :
             StoresProfile(r) => elevationProfile' = Stored(runs'[r].elevations)
       /\ (\A r \in DOMAIN runs : ~StoresProfile(r)) => elevationProfile' = elevationProfile
      ]_vars

\* The run of the older, 3-point route resolved after the run of the newer,
\* 2-point route: the profile stored is the older one's.
C30_Witness_OlderRunResolvedLast ==
    /\ Len(runs) = 2
    /\ runs[1].n = 3
    /\ runs[2].n = 2
    /\ Succeeded(runs[1])
    /\ Succeeded(runs[2])
    /\ elevationProfile = Stored(runs[1].elevations)
    /\ runs[1].elevations # runs[2].elevations

\* The elevations a provider returns for the first k chunks of a run.
Gathered(run, k) ==
    Elevations(Results(run.api, run.n,
                       SubSeq(run.sampled, 1, Min(k * chunkSize, Len(run.sampled)))))

\* C31: a run has one position, so at most one lookup of it is outstanding:
\* while it is in flight it waits for one fetch or one backoff timer of one
\* chunk; the chunk it requests is requested only after every earlier chunk
\* of the same provider has succeeded and been pushed, and it talks to the
\* secondary provider only after the primary's run has failed.
C31_OneLookupOutstanding ==
    \A r \in DOMAIN runs :
        InFlight(r) =>
            /\ runs[r].pc \in {"fetching", "backoff"}
            /\ runs[r].chunk < Len(runs[r].chunks)
            /\ runs[r].elevations = Gathered(runs[r], runs[r].chunk)
            /\ runs[r].api = secondary =>
                    runs[r].primaryOutcome \in {"invalid", "exhausted"}
            /\ runs[r].api = primary => runs[r].secondaryOutcome = "untried"

\* The secondary is asked for the second chunk of a 150-point route after
\* the primary failed on its own second chunk.
C31_Witness_SecondChunkOfSecondary ==
    /\ Len(runs) = 1
    /\ runs[1].api = secondary
    /\ runs[1].chunk = 1
    /\ runs[1].pc = "fetching"
    /\ runs[1].primaryGathered = chunkSize
    /\ Len(runs[1].elevations) = chunkSize

\* C32: the chunks of a run have at most chunkSize points, all but the last
\* exactly chunkSize, and read one after the other in request order they are
\* the down-sampled set; the elevations of a run that succeeded are those of
\* the down-sampled points, in path order.
C32_ChunksPartitionTheSample ==
    \A r \in DOMAIN runs :
        LET run == runs[r]
            chunks == run.chunks
            last == Len(chunks)
        IN  /\ \A k \in DOMAIN chunks :
                   /\ Len(chunks[k]) <= chunkSize
                   /\ k < last => Len(chunks[k]) = chunkSize
            /\ last > 0
            /\ Len(run.sampled) = (last - 1) * chunkSize + Len(chunks[last])
            /\ \A j \in DOMAIN run.sampled :
                   chunks[((j - 1) \div chunkSize) + 1][((j - 1) % chunkSize) + 1]
                       = run.sampled[j]
            /\ Succeeded(run) =>
                   /\ run.elevations = Elevations(Results(run.api, run.n, run.sampled))
                   /\ elevationProfile = Stored(run.elevations)

\* A 1100-point route: 550 samples in five chunks of 100 and one of 50, all
\* answered by the secondary provider.
C32_Witness_SixChunksStored ==
    /\ Len(runs) = 1
    /\ runs[1].n = 1100
    /\ Len(runs[1].chunks) = 6
    /\ Len(runs[1].chunks[6]) = 50
    /\ Succeeded(runs[1])
    /\ runs[1].api = secondary
    /\ Len(runs[1].elevations) = 550

\* C33: once the run of the newest route has finished and no run is in
\* flight, the stored profile is absent or is the profile that run built from
\* its own samples.
C33_ProfileOfTheNewestRunOrAbsent ==
    (runs # << >> /\ \A r \in DOMAIN runs : ~InFlight(r)) =>
        LET run == runs[Len(runs)]
        IN  \/ elevationProfile = NullProfile
            \/ /\ Succeeded(run)
               /\ elevationProfile = Stored(run.elevations)

\* Indices of the raw profile of the call.
RawIndices == 0..(Len(call.vals) - 1)

\* C34: for every raw profile of at least 2 values the curve has exactly 512
\* samples, the first is the first raw value and the last the last raw value,
\* and every index read in the raw profile and in the control points, by
\* getControlPoints and by the sampling loop, is inside the array.
C34_SmoothedCurveOf512Samples ==
    (call.op = "smooth" /\ Len(call.vals) >= 2) =>
        /\ Len(call.smoothed) = 512
        /\ call.smoothed[1].val = call.vals[1]
        /\ call.smoothed[512].val = call.vals[Len(call.vals)]
        /\ \A k \in DOMAIN call.cps :
               \A j \in 1..4 : call.cps[k].reads[j] \in RawIndices
        /\ \A s \in DOMAIN call.smoothed :
               /\ call.smoothed[s].reads[1] \in RawIndices
               /\ call.smoothed[s].reads[2] \in RawIndices
               /\ call.smoothed[s].i + 1 \in DOMAIN call.cps
               /\ call.smoothed[s].below + 1 \in DOMAIN call.cps

\* The curve of a profile of 1023 values: its last sample lies in the last
\* segment, 1021, and is the last raw value.
C34_Witness_LongProfile ==
    /\ call.op = "smooth"
    /\ Len(call.vals) = 1023
    /\ call.smoothed[512].i = 1021
    /\ call.smoothed[512].val = call.vals[1023]
    /\ call.smoothed[2].i = 2

\* C35: every segment drawn for a route of at least 2 coordinates has a
\* defined fraction within [0, 1] and colour channels between those of the
\* start and the end colour; the first segment has the start colour and the
\* last segment the end colour.
C35_GradientFractionDefined ==
    \A k \in DOMAIN routeSegmentsRef :
        LET n == routeSegmentsRef[k][1]
            i == routeSegmentsRef[k][2]
            t == fraction(n, i)
            color == segmentColor(n, i)
        IN  /\ t # NaN
            /\ InUnitInterval(t)
            /\ \A c \in 1..3 : startColor[c] <= color[c] /\ color[c] <= endColor[c]
            /\ i = 0 => color = startColor
            /\ i = n - 2 => color = endColor

\* C36: the loading flag is set exactly while some elevation pipeline run is
\* in flight, also when runs of successive routes overlap.
C36_LoadingWhileAnyRunInFlight ==
    elevationLoading <=> \E r \in DOMAIN runs : InFlight(r)

\* The 'dblclick' event of a double click on a route of at least 2 waypoints
\* is delivered: it follows the second of two clicks, and everything queued
\* before has been rendered.
DoubleClickCompletes ==
    /\ lastOp.op = "click"
    /\ lastOp.clicks = 2
    /\ ~renderPending
    /\ Len(waypointsRef) >= 2
    /\ lastOp'.op = "dblclick"

\* C37: a double click on a route of at least 2 waypoints, whenever the
\* 250 ms timer of its first click fires, ends with exactly one commit, the
\* insertion of the clicked point, and with no waypoint appended by the
\* single-click path.
C37_DoubleClickCommitsOnce ==
    [][DoubleClickCompletes =>
          /\ ~lastOp.appended
          /\ lastOp'.committed
          /\ Len(waypoints') = Len(waypoints) + 1
      ]_vars

\* C38: the end of a drag of the marker of waypoint k outside the trash area
\* replaces element k by the marker's position, and inside the trash area
\* removes element k; nothing else of the list changes, duplicates or not.
C38_DragEndChangesOnlyTheDraggedWaypoint ==
    [][\A p \in Points, t \in BOOLEAN :
          dragEnd(p, t) =>
              waypoints' = IF t THEN RemoveAt(waypoints, drag.marker)
                                ELSE ReplaceAt(waypoints, drag.marker, p)
      ]_vars

\* C39: an Undo pressed with the cursor above 0 and followed by a Redo
\* restores the current list, the history and the cursor the Undo found, and
\* a Redo pressed with the cursor below the last index and followed by an Undo
\* restores what the Redo found.
C39_UndoAndRedoAreInverse ==
    [][/\ (lastOp.op = "undo" /\ lastOp.before[3] > 0 /\ lastOp'.op = "redo") =>
              <<waypoints', history', historyIndex'>> = lastOp.before
       /\ (/\ lastOp.op = "redo"
           /\ lastOp.before[3] < Len(lastOp.before[2]) - 1
           /\ lastOp'.op = "undo") =>
              <<waypoints', history', historyIndex'>> = lastOp.before
      ]_vars

\* The route parameter is absent, or cannot be percent-decoded, or what it
\* decodes to is not JSON.
AbsentOrBroken(raw) ==
    \/ searchParamsGet(raw) = << >>
    \/ ~decodeURIComponent(searchParamsGet(raw)).ok
    \/ ~JSONparse(decodeURIComponent(searchParamsGet(raw)).value).ok

\* C40: a page opened with a route parameter that is absent or that cannot
\* be percent-decoded and parsed as JSON gets the empty list as its initial
\* waypoints, not an error: the map is rendered from the empty list.
C40_BrokenRouteParameterGivesEmptyList ==
    (call.op = "pageLoad" /\ AbsentOrBroken(call.routeData)) =>
        call.initialWaypoints = << >>

\* A page was opened with the malformed escape "%x[" and has no waypoints.
C40_Witness_MalformedEscape ==
    /\ call.op = "pageLoad"
    /\ call.routeData = <<"%", "x", "[">>
    /\ ~decodeURIComponent(searchParamsGet(call.routeData)).ok
    /\ call.initialWaypoints = << >>

====
